---- MODULE Spec2Model ----
(***************************************************************************)
(* A model of the clarinet-barrel designer (ArtisanClarinets/windfoam):    *)
(* the comparison history, the session codec, the stored-designs map, the  *)
(* profile / thickness / outline generators, the simulation results and    *)
(* their evaluators, and the barrel optimizer.                             *)
(*                                                                         *)
(* Python values are modelled as follows.  In the comparison callbacks a   *)
(* dict is a function whose domain is its set of keys, a list a sequence   *)
(* and None is PyNone.  Values that pass through JSON are tagged (JNull    *)
(* for None, JNum, JStr, JArr for a list, JObj for a dict) and JSON text   *)
(* is a sequence of tokens.  Numbers are exact rationals [n, d]: IEEE-754  *)
(* rounding is not modelled.                                               *)
(***************************************************************************)
EXTENDS Integers, Sequences, FiniteSets, TLC

VARIABLES
    stored_simulation_data,  \* dcc.Store "stored-simulation-data"
    save_design_name,        \* Input "save-design-name"
    stored_comparison_data,  \* dcc.Store "stored-comparison-data"
    added_log,               \* history variable: every entry ever added
    w3_sim_results,          \* wizard dcc.Store "w3-sim-results"
    w4_design_name,          \* wizard Input "w4-design-name"
    w4_comparison_data,      \* wizard dcc.Store "w4-comparison-data"
    wizard_step,             \* wizard dcc.Store "wizard-step"
    wizard_styles,           \* the style of the panels wizard-step1..4
    wizard_log,              \* history variable: the navigation events so far
    stored_designs,          \* app.py STORED_DESIGNS, shared with callbacks.py
    wizard_stored_designs,   \* wizard_app.py stored_designs
    call,                    \* the last direct call of a function: its arguments
    ret                      \* ... and its outcome (returned value or raised error);
                             \* for the optimizer, the state of its search as well

vars == <<stored_simulation_data, save_design_name, stored_comparison_data,
          added_log, w3_sim_results, w4_design_name, w4_comparison_data,
          wizard_step, wizard_styles, wizard_log, stored_designs, wizard_stored_designs, call, ret>>

compareVars == <<stored_simulation_data, save_design_name,
                 stored_comparison_data, added_log>>
navVars == <<wizard_step, wizard_styles, wizard_log>>
wizardVars == <<w3_sim_results, w4_design_name, w4_comparison_data, navVars>>
designVars == <<stored_designs, wizard_stored_designs>>
callVars == <<call, ret>>

-----------------------------------------------------------------------------
(* Python values *)

PyNone == [py_none |-> TRUE]

EmptyDict == <<>>

\* dict.get(key, default)
Get(d, key, default) == IF key \in DOMAIN d THEN d[key] ELSE default

\* truth value of a dict-or-None (`if not current_sim`)
TruthyDict(d) == DOMAIN d # {} /\ "py_none" \notin DOMAIN d

\* seq[-n:]
LastN(seq, n) ==
    IF Len(seq) <= n THEN seq ELSE SubSeq(seq, Len(seq) - n + 1, Len(seq))

-----------------------------------------------------------------------------
(* Bounds of the model *)

MaxAdds == 6          \* compare-button additions followed in the main app
MaxWizardRows == 6    \* rows followed in the wizard's comparison table
MaxHist == 5          \* longest prior history handed to a direct call
MaxRows == 3          \* rows of a bore profile handed to the session codec
MaxResolution == 6    \* largest sample count asked of the wizard's generator
MaxSegments == 3      \* rows of a bore table handed to the outline builder
MaxPeak == 6          \* spacings of the peaks in an engine's answer
MaxEvaluations == 2   \* cost evaluations followed in one search
MaxIter == 3          \* samples per axis of the autotune grid
MaxNav == 4           \* wizard navigation events followed

-----------------------------------------------------------------------------
(* Numbers: Python floats taken as exact rationals n/d, d > 0, in lowest terms *)

Abs(x) == IF x < 0 THEN -x ELSE x

RECURSIVE GCD(_, _)
GCD(a, b) == IF b = 0 THEN a ELSE GCD(b, a % b)

Rat(n, d) ==
    LET g == GCD(Abs(n), Abs(d))
        sign == IF d < 0 THEN -1 ELSE 1
    IN  [n |-> (sign * n) \div g, d |-> (sign * d) \div g]

R(k) == [n |-> k, d |-> 1]

RAdd(a, b) == Rat(a.n * b.d + b.n * a.d, a.d * b.d)
RSub(a, b) == Rat(a.n * b.d - b.n * a.d, a.d * b.d)
RMul(a, b) == Rat(a.n * b.n, a.d * b.d)
RDiv(a, b) == Rat(a.n * b.d, a.d * b.n)
RAbs(a) == [n |-> Abs(a.n), d |-> a.d]
\* a < b, decided on the whole parts and then on the inverted remainders, so
\* that no product leaves the range of the integers
RECURSIVE RLt(_, _)
RLt(a, b) ==
    LET whole_a == a.n \div a.d
        whole_b == b.n \div b.d
        rest_a == a.n - whole_a * a.d
        rest_b == b.n - whole_b * b.d
    IN  IF whole_a # whole_b THEN whole_a < whole_b
        ELSE IF rest_b = 0 THEN FALSE
        ELSE IF rest_a = 0 THEN TRUE
        ELSE RLt([n |-> b.d, d |-> rest_b], [n |-> a.d, d |-> rest_a])
RLe(a, b) == ~RLt(b, a)
RSquare(a) == RMul(a, a)

Max(a, b) == IF a >= b THEN a ELSE b

-----------------------------------------------------------------------------
(* JSON: values, text, json.dumps and json.loads *)

JNull == [t |-> "null"]
JNum(n) == [t |-> "num", n |-> n]
JStr(s) == [t |-> "str", s |-> s]
JArr(a) == [t |-> "arr", a |-> a]
JObj(o) == [t |-> "obj", o |-> o]

\* tokens of a JSON text
Tok(k) == [k |-> k]
TNum(n) == [k |-> "num", n |-> n]
TStr(s) == [k |-> "str", s |-> s]

\* a dict with one more item (a repeated key takes the new value)
Put(o, key, v) ==
    [x \in DOMAIN o \cup {key} |-> IF x = key THEN v ELSE o[x]]

RECURSIVE Dumps(_), DumpsElements(_, _), DumpsMembers(_, _)

\* the elements of a list from index i on, separated by commas
DumpsElements(a, i) ==
    IF i > Len(a) THEN <<>>
    ELSE (IF i > 1 THEN <<Tok(",")>> ELSE <<>>) \o Dumps(a[i])
            \o DumpsElements(a, i + 1)

\* the items of a dict whose keys are still in todo, separated by commas
DumpsMembers(o, todo) ==
    IF todo = {} THEN <<>>
    ELSE LET key == CHOOSE x \in todo : TRUE
         IN  (IF todo # DOMAIN o THEN <<Tok(",")>> ELSE <<>>)
                \o <<TStr(key), Tok(":")>> \o Dumps(o[key])
                \o DumpsMembers(o, todo \ {key})

\* json.dumps
Dumps(v) ==
    CASE v.t = "null" -> <<Tok("null")>>
      [] v.t = "num" -> <<TNum(v.n)>>
      [] v.t = "str" -> <<TStr(v.s)>>
      [] v.t = "arr" -> <<Tok("[")>> \o DumpsElements(v.a, 1) \o <<Tok("]")>>
      [] v.t = "obj" -> <<Tok("{")>> \o DumpsMembers(v.o, DOMAIN v.o) \o <<Tok("}")>>

ParseFail == [ok |-> FALSE]
ParseOk(v, next) == [ok |-> TRUE, v |-> v, next |-> next]

RECURSIVE ParseValue(_, _), ParseElements(_, _, _), ParseMembers(_, _, _)

\* after "[" or ",": a value, then "," or "]"
ParseElements(text, i, acc) ==
    LET r == ParseValue(text, i)
    IN  IF ~r.ok \/ r.next > Len(text) THEN ParseFail
        ELSE IF text[r.next].k = ","
             THEN ParseElements(text, r.next + 1, Append(acc, r.v))
        ELSE IF text[r.next].k = "]"
             THEN ParseOk(JArr(Append(acc, r.v)), r.next + 1)
        ELSE ParseFail

\* after "{" or ",": a string key, ":", a value, then "," or "}"
ParseMembers(text, i, acc) ==
    IF i + 1 > Len(text) \/ text[i].k # "str" \/ text[i + 1].k # ":"
    THEN ParseFail
    ELSE LET r == ParseValue(text, i + 2)
         IN  IF ~r.ok \/ r.next > Len(text) THEN ParseFail
             ELSE IF text[r.next].k = ","
                  THEN ParseMembers(text, r.next + 1, Put(acc, text[i].s, r.v))
             ELSE IF text[r.next].k = "}"
                  THEN ParseOk(JObj(Put(acc, text[i].s, r.v)), r.next + 1)
             ELSE ParseFail

\* one JSON value starting at token i
ParseValue(text, i) ==
    IF i > Len(text) THEN ParseFail
    ELSE CASE text[i].k = "null" -> ParseOk(JNull, i + 1)
           [] text[i].k = "num" -> ParseOk(JNum(text[i].n), i + 1)
           [] text[i].k = "str" -> ParseOk(JStr(text[i].s), i + 1)
           [] text[i].k = "[" ->
                IF i + 1 <= Len(text) /\ text[i + 1].k = "]"
                THEN ParseOk(JArr(<<>>), i + 2)
                ELSE ParseElements(text, i + 1, <<>>)
           [] text[i].k = "{" ->
                IF i + 1 <= Len(text) /\ text[i + 1].k = "}"
                THEN ParseOk(JObj(<<>>), i + 2)
                ELSE ParseMembers(text, i + 1, <<>>)
           [] OTHER -> ParseFail

\* json.loads: one value and nothing after it, else JSONDecodeError
Loads(text) ==
    LET r == ParseValue(text, 1)
    IN  IF r.ok /\ r.next = Len(text) + 1 THEN [ok |-> TRUE, v |-> r.v]
        ELSE ParseFail

-----------------------------------------------------------------------------
(* Simulation results as the comparison callbacks see them *)

SimKeys == {"f1", "cutoff", "resistance", "brightness", "harmonicity"}

\* two results of run_mock_simulation (values in hundredths / thousandths)
SimA == [k \in SimKeys |->
            CASE k = "f1" -> 45012 [] k = "cutoff" -> 99026
              [] k = "resistance" -> 2500 [] k = "brightness" -> 350
              [] k = "harmonicity" -> 900]
SimB == [k \in SimKeys |->
            CASE k = "f1" -> 47000 [] k = "cutoff" -> 103400
              [] k = "resistance" -> 7000 [] k = "brightness" -> 600
              [] k = "harmonicity" -> 750]

\* a result of the wizard's run_mock_simulation: no "resistance" key
WizSim(s) == [k \in SimKeys \ {"resistance"} |-> s[k]]

MockResults == {SimA, SimB}

DesignNames == {"", "A"}

\* f"Design {n}"
DesignLabel(n) ==
    <<"Design 1", "Design 2", "Design 3", "Design 4", "Design 5",
      "Design 6", "Design 7", "Design 8", "Design 9", "Design 10">>[n]

\* f"Design{n}" (wizard)
WizardLabel(n) ==
    <<"Design1", "Design2", "Design3", "Design4", "Design5",
      "Design6", "Design7", "Design8", "Design9", "Design10">>[n]

-----------------------------------------------------------------------------
(* callbacks.py / barrel.py: add_to_comparison *)

CompareBtn == "compare-mode-btn"
SimStore == "stored-simulation-data"

ComparisonEntry(design_name, current_sim, comparison_data) ==
    [name |-> IF design_name = "" THEN DesignLabel(Len(comparison_data) + 1)
              ELSE design_name,
     f1 |-> Get(current_sim, "f1", 0),
     cutoff |-> Get(current_sim, "cutoff", 0),
     resistance |-> Get(current_sim, "resistance", 0),
     brightness |-> Get(current_sim, "brightness", 0),
     harmonicity |-> Get(current_sim, "harmonicity", 0)]

\* a bug the window claim must catch: the newest entries are dropped
AddToComparison_KeepFirst(triggered_id, current_sim, design_name, comparison_data) ==
    IF triggered_id = CompareBtn /\ TruthyDict(current_sim)
    THEN LET grown == Append(comparison_data,
                        ComparisonEntry(design_name, current_sim, comparison_data))
         IN  [data |-> IF Len(grown) > 5 THEN SubSeq(grown, 1, 5) ELSE grown,
              children |-> "table"]
    ELSE [data |-> comparison_data, children |-> "table"]

\* a bug the no-op claim must catch: a placeholder row is added without a result
AddToComparison_AddsBlank(triggered_id, current_sim, design_name, comparison_data) ==
    IF triggered_id = CompareBtn
    THEN [data |-> LastN(Append(comparison_data,
                      ComparisonEntry(design_name,
                          IF TruthyDict(current_sim) THEN current_sim ELSE EmptyDict,
                          comparison_data)), 5),
          children |-> "table"]
    ELSE [data |-> comparison_data, children |-> "table"]

\* a changed simulation store adds an entry as the button does
AddToComparison_AddsOnStore(triggered_id, current_sim, design_name, comparison_data) ==
    IF ~TruthyDict(current_sim)
    THEN [data |-> comparison_data,
          children |-> "No simulation results to compare."]
    ELSE [data |-> LastN(Append(comparison_data,
                      ComparisonEntry(design_name, current_sim, comparison_data)), 5),
          children |-> "table"]

\* returns (comparison_data, children).  The store is created with data=[]
\* and only this callback writes it, so comparison_data is never None here.
AddToComparison(triggered_id, current_sim, design_name, comparison_data) ==
    LET data0 == comparison_data
    IN  IF triggered_id = CompareBtn /\ ~TruthyDict(current_sim)
        THEN [data |-> data0, children |-> "No simulation results to compare."]
        ELSE LET data1 ==
                    IF triggered_id = CompareBtn
                    THEN LastN(Append(data0,
                            ComparisonEntry(design_name, current_sim, data0)), 5)
                    ELSE data0
             IN  IF Len(data1) = 0
                 THEN [data |-> data1,
                       children |-> "No designs currently in comparison."]
                 ELSE [data |-> data1, children |-> "table"]

\* the user edits the design-name box
SetDesignName ==
    /\ \E n \in DesignNames : save_design_name' = n
    /\ save_design_name' # save_design_name
    /\ UNCHANGED <<stored_simulation_data, stored_comparison_data, added_log>>
    /\ UNCHANGED <<wizardVars, designVars, callVars>>

\* run_simulation stores a result; the changed store fires add_to_comparison
RunSimulation ==
    /\ \E r \in MockResults : stored_simulation_data' = r
    /\ stored_comparison_data' =
          AddToComparison(SimStore, stored_simulation_data', save_design_name,
                          stored_comparison_data).data
    /\ UNCHANGED <<save_design_name, added_log>>
    /\ UNCHANGED <<wizardVars, designVars, callVars>>

\* the compare button fires add_to_comparison
CompareClick ==
    /\ Len(added_log) < MaxAdds
    /\ stored_comparison_data' =
          AddToComparison(CompareBtn, stored_simulation_data, save_design_name,
                          stored_comparison_data).data
    /\ added_log' =
          IF TruthyDict(stored_simulation_data)
          THEN Append(added_log,
                  [design_name |-> save_design_name,
                   sim |-> stored_simulation_data,
                   shown |-> Len(stored_comparison_data)])
          ELSE added_log
    /\ UNCHANGED <<stored_simulation_data, save_design_name>>
    /\ UNCHANGED <<wizardVars, designVars, callVars>>

\* add_to_comparison called directly, on any history of at most MaxHist entries
HistEntries ==
    {ComparisonEntry("A", SimA, <<>>), ComparisonEntry("", SimB, <<>>)}

Histories == UNION {[1..n -> HistEntries] : n \in 0..MaxHist}

CallAddToComparison ==
    /\ call.op = "none"
    /\ \E t \in {CompareBtn, SimStore}, sim \in {PyNone, EmptyDict} \cup MockResults,
          n \in DesignNames, h \in Histories :
          /\ call' = [op |-> "add_to_comparison", triggered_id |-> t,
                      current_sim |-> sim, design_name |-> n,
                      comparison_data |-> h]
          /\ ret' = AddToComparison(t, sim, n, h)
    /\ UNCHANGED <<compareVars, wizardVars, designVars>>

-----------------------------------------------------------------------------
(* wizard_app.py: compare_mode *)

WizardResults == {WizSim(SimA), WizSim(SimB)}

\* the table row built from the current result
WizardRow(simres, design_name, comp_data) ==
    [name |-> IF design_name = "" THEN WizardLabel(Len(comp_data) + 1)
              ELSE design_name,
     f1 |-> Get(simres, "f1", 0),
     cutoff |-> Get(simres, "cutoff", 0),
     brightness |-> Get(simres, "brightness", 0),
     harmonicity |-> Get(simres, "harmonicity", 0)]

\* returns [style, comp_data, table]; the only Input is the compare button
CompareMode(simres, design_name, comp_data) ==
    [style |-> "shown",
     data |-> IF TruthyDict(simres)
              THEN Append(comp_data, WizardRow(simres, design_name, comp_data))
              ELSE comp_data,
     table |-> "table"]

\* run_sim stores the result of the wizard's run_mock_simulation
WizardRunSim ==
    /\ \E r \in WizardResults : w3_sim_results' = r
    /\ w3_sim_results' # w3_sim_results
    /\ UNCHANGED <<w4_design_name, w4_comparison_data, navVars>>
    /\ UNCHANGED <<compareVars, designVars, callVars>>

WizardSetName ==
    /\ \E n \in DesignNames : w4_design_name' = n
    /\ w4_design_name' # w4_design_name
    /\ UNCHANGED <<w3_sim_results, w4_comparison_data, navVars>>
    /\ UNCHANGED <<compareVars, designVars, callVars>>

WizardCompareClick ==
    /\ Len(w4_comparison_data) < MaxWizardRows
    /\ w4_comparison_data' =
          CompareMode(w3_sim_results, w4_design_name, w4_comparison_data).data
    /\ UNCHANGED <<w3_sim_results, w4_design_name, navVars>>
    /\ UNCHANGED <<compareVars, designVars, callVars>>

-----------------------------------------------------------------------------
(* wizard_app.py: step navigation *)

\* a style dict, as the set of its items
style_hidden == {<<"display", "none">>}
style_shown == {}

\* Finish takes the wizard back to its first step
WizardNav_FinishRestarts(triggered, current_step) ==
    CASE triggered = "w1-next-btn" -> 2
      [] triggered = "w2-next-btn" -> 3
      [] triggered = "w2-back-btn" -> 1
      [] triggered = "w3-next-btn" -> 4
      [] triggered = "w3-back-btn" -> 2
      [] triggered = "w4-back-btn" -> 3
      [] triggered = "w4-finish-btn" -> 1
      [] OTHER -> current_step

\* wizard_nav; `current_step or 1` takes a step of 0 for the first
WizardNav(triggered, current_step) ==
    LET step == IF current_step = 0 THEN 1 ELSE current_step
    IN  CASE triggered = "w1-next-btn" -> 2
          [] triggered = "w2-next-btn" -> 3
          [] triggered = "w2-back-btn" -> 1
          [] triggered = "w3-next-btn" -> 4
          [] triggered = "w3-back-btn" -> 2
          [] triggered = "w4-back-btn" -> 3
          [] triggered = "w4-finish-btn" -> 4
          [] OTHER -> step

\* the third panel stays on screen beside the fourth
ShowHideSteps_ReviewStays(step) ==
    <<IF step = 1 THEN style_shown ELSE style_hidden,
      IF step = 2 THEN style_shown ELSE style_hidden,
      IF step >= 3 THEN style_shown ELSE style_hidden,
      IF step = 4 THEN style_shown ELSE style_hidden>>

\* show_hide_steps: [s1, s2, s3, s4]
ShowHideSteps(step) ==
    <<IF step = 1 THEN style_shown ELSE style_hidden,
      IF step = 2 THEN style_shown ELSE style_hidden,
      IF step = 3 THEN style_shown ELSE style_hidden,
      IF step = 4 THEN style_shown ELSE style_hidden>>

\* wizard_nav runs for one of its seven buttons, or without a trigger as at
\* page load (prop_id "."), and writes the step; the written store runs
\* show_hide_steps, which writes the four styles. The log keeps the trigger,
\* the step it found, the step it left and the styles it found
WizardNavEvent ==
    /\ Len(wizard_log) < MaxNav
    /\ \E triggered \in {"", "w1-next-btn", "w2-next-btn", "w2-back-btn",
                         "w3-next-btn", "w3-back-btn", "w4-back-btn",
                         "w4-finish-btn"} :
          /\ wizard_step' = WizardNav(triggered, wizard_step)
          /\ wizard_log' = Append(wizard_log,
                              [triggered |-> triggered, from |-> wizard_step,
                               to |-> wizard_step', styles |-> wizard_styles])
    /\ wizard_styles' = ShowHideSteps(wizard_step')
    /\ UNCHANGED <<w3_sim_results, w4_design_name, w4_comparison_data>>
    /\ UNCHANGED <<compareVars, designVars, callVars>>

-----------------------------------------------------------------------------
(* session_manager.py: save_session / load_session *)

\* truth value of a Python value (`x or y`)
Truthy(v) ==
    CASE v.t = "null" -> FALSE
      [] v.t = "num" -> v.n # 0
      [] v.t = "str" -> v.s # ""
      [] v.t = "arr" -> Len(v.a) > 0
      [] v.t = "obj" -> DOMAIN v.o # {}

\* A DataFrame is the sequence of its rows, a row maps column names to numbers.
\* bore_df.to_dict(orient="records")
ToDictRecords(df) ==
    JArr([i \in 1..Len(df) |-> JObj([c \in DOMAIN df[i] |-> JNum(df[i][c])])])

\* pd.DataFrame(list of records)
DataFrame(v) ==
    [i \in 1..Len(v.a) |-> [c \in DOMAIN v.a[i].o |-> v.a[i].o[c].n]]

Raise(error) == [outcome |-> "raise", error |-> error]

\* obj[key]: the value, or the error Python raises
Subscript(v, key) ==
    IF v.t # "obj" THEN [ok |-> FALSE, error |-> "TypeError"]
    ELSE IF key \notin DOMAIN v.o THEN [ok |-> FALSE, error |-> "KeyError"]
    ELSE [ok |-> TRUE, v |-> v.o[key]]

SessionKeys == {"timestamp", "notes", "bore_profile", "environment", "material"}

\* a bug the round-trip claim must catch: humidity is written to both fields
SaveSession_OneReading(bore_df, temperature, humidity, material_props, notes, now) ==
    Dumps(JObj([k \in SessionKeys |->
        CASE k = "timestamp" -> JStr(now)
          [] k = "notes" -> notes
          [] k = "bore_profile" -> ToDictRecords(bore_df)
          [] k = "environment" ->
                JObj([e \in {"temperature", "humidity"} |-> humidity])
          [] k = "material" ->
                IF Truthy(material_props) THEN material_props ELSE JObj(<<>>)]))

\* save_session; now is datetime.now().isoformat()
SaveSession(bore_df, temperature, humidity, material_props, notes, now) ==
    Dumps(JObj([k \in SessionKeys |->
        CASE k = "timestamp" -> JStr(now)
          [] k = "notes" -> notes
          [] k = "bore_profile" -> ToDictRecords(bore_df)
          [] k = "environment" ->
                JObj([e \in {"temperature", "humidity"} |->
                        IF e = "temperature" THEN temperature ELSE humidity])
          [] k = "material" ->
                IF Truthy(material_props) THEN material_props ELSE JObj(<<>>)]))

\* a bug the malformed-session claim must catch: a missing profile is defaulted
LoadSession_Lenient(json_string) ==
    LET parsed == Loads(json_string)
    IN  IF ~parsed.ok \/ parsed.v.t # "obj"
        THEN Raise("JSONDecodeError")
        ELSE [outcome |-> "return",
              bore_df |-> IF "bore_profile" \in DOMAIN parsed.v.o
                          THEN DataFrame(parsed.v.o["bore_profile"]) ELSE <<>>,
              temperature |-> JNum(22),
              humidity |-> JNum(50),
              material_props |-> Get(parsed.v.o, "material", JObj(<<>>)),
              notes |-> Get(parsed.v.o, "notes", JStr(""))]

\* load_session
LoadSession(json_string) ==
    LET parsed == Loads(json_string)
    IN  IF ~parsed.ok THEN Raise("JSONDecodeError")
        ELSE LET session_data == parsed.v
                 profile == Subscript(session_data, "bore_profile")
                 environment == Subscript(session_data, "environment")
             IN  IF ~profile.ok THEN Raise(profile.error)
                 ELSE IF ~environment.ok THEN Raise(environment.error)
                 ELSE IF environment.v.t # "obj" THEN Raise("AttributeError")
                 ELSE [outcome |-> "return",
                       bore_df |-> DataFrame(profile.v),
                       temperature |-> Get(environment.v.o, "temperature", JNum(22)),
                       humidity |-> Get(environment.v.o, "humidity", JNum(50)),
                       material_props |-> Get(session_data.o, "material", JObj(<<>>)),
                       notes |-> Get(session_data.o, "notes", JStr(""))]

(* Inputs of the session codec *)

BoreRows == [position : {0, 33}, diameter : {14, 15}]

BoreFrames == UNION {[1..n -> BoreRows] : n \in 0..MaxRows}

Temperatures == {JNum(22), JNum(25)}
Humidities == {JNum(50), JNum(40)}
Materials ==
    {JNull, JObj(<<>>), JObj([k \in {"name"} |-> JStr("Grenadilla")]),
     JObj([k \in {"name", "density"} |->
            IF k = "name" THEN JStr("Ebonite") ELSE JNum(1150)])}
Notes == {JStr(""), JStr("warm tone")}
Timestamps == {"2025-01-01T10:00:00"}

\* load_session(save_session(...))
CallSaveLoad ==
    /\ call.op = "none"
    /\ \E df \in BoreFrames, temp \in Temperatures, hum \in Humidities,
          mat \in Materials, notes \in Notes, now \in Timestamps :
          /\ call' = [op |-> "save_load", bore_df |-> df, temperature |-> temp,
                      humidity |-> hum, material_props |-> mat, notes |-> notes]
          /\ ret' = LoadSession(SaveSession(df, temp, hum, mat, notes, now))
    /\ UNCHANGED <<compareVars, wizardVars, designVars>>

\* a complete session: what save_session writes for a two-row profile
FullSession ==
    [k \in SessionKeys |->
        CASE k = "timestamp" -> JStr("2025-01-01T10:00:00")
          [] k = "notes" -> JStr("warm tone")
          [] k = "bore_profile" ->
                ToDictRecords(<<[position |-> 0, diameter |-> 14],
                                [position |-> 33, diameter |-> 15]>>)
          [] k = "environment" ->
                JObj([e \in {"temperature", "humidity"} |->
                        IF e = "temperature" THEN JNum(25) ELSE JNum(40)])
          [] k = "material" -> JObj([m \in {"name"} |-> JStr("Grenadilla")])]

Restrict(o, keys) == [x \in DOMAIN o \cap keys |-> o[x]]

\* sessions with any of the fields left out, the environment whole or in part
PartialSessions ==
    {IF "environment" \in keys
     THEN Put(Restrict(FullSession, keys), "environment",
              JObj(Restrict(FullSession["environment"].o, envkeys)))
     ELSE Restrict(FullSession, keys) :
        keys \in SUBSET SessionKeys, envkeys \in SUBSET {"temperature", "humidity"}}

FullText == Dumps(JObj(FullSession))

\* a file cut short, and a file with one token lost
TruncatedTexts == {SubSeq(FullText, 1, n) : n \in 0..(Len(FullText) - 1)}
DamagedTexts ==
    {SubSeq(FullText, 1, n - 1) \o SubSeq(FullText, n + 1, Len(FullText)) :
        n \in 1..Len(FullText)}

\* JSON documents that are not objects
ScalarTexts ==
    {Dumps(v) : v \in {JNull, JNum(5), JStr("bore_profile"), JArr(<<>>),
                       JArr(<<JStr("bore_profile")>>)}}

LoadTexts ==
    {Dumps(JObj(o)) : o \in PartialSessions}
        \cup TruncatedTexts \cup DamagedTexts \cup ScalarTexts

\* load_session on a given text
CallLoadSession ==
    /\ call.op = "none"
    /\ \E text \in LoadTexts :
          /\ call' = [op |-> "load_session", json_string |-> text]
          /\ ret' = LoadSession(text)
    /\ UNCHANGED <<compareVars, wizardVars, designVars>>

-----------------------------------------------------------------------------
(* callbacks.py: load_design_from_json; wizard_app.py: load_design *)

(* The contents of the upload component: None, "" or a data URL.  A data URL *)
(* is modelled by the number of commas in it and by its part after the comma: *)
(* the base64 of the UTF-8 bytes of a text (enc "ok"), base64 with wrong      *)
(* padding, or base64 of bytes that are not UTF-8.                            *)
NoContent == [kind |-> "none"]
EmptyContent == [kind |-> "empty"]
DataUrl(commas, body) == [kind |-> "data", commas |-> commas, body |-> body]
Base64Of(text) == [enc |-> "ok", text |-> text]

\* whether a parsed value can be a dict key
Hashable(v) == v.t \notin {"arr", "obj"}

\* `"design_name" in design_data`, or the TypeError Python raises
ContainsDesignName(v) ==
    CASE v.t = "obj" -> [ok |-> TRUE, v |-> "design_name" \in DOMAIN v.o]
      [] v.t = "arr" ->
            [ok |-> TRUE, v |-> \E i \in 1..Len(v.a) : v.a[i] = JStr("design_name")]
      [] v.t = "str" -> [ok |-> TRUE, v |-> v.s = "design_name"]
      [] OTHER -> [ok |-> FALSE, error |-> "TypeError"]

\* content.split(',') unpacked into two names, then base64.b64decode: both
\* before the try block
DecodesToBytes(content) ==
    content.kind = "data" /\ content.commas = 1 /\ content.body.enc # "bad_padding"

\* a bug the frame claim must catch: the map is rebuilt around the loaded design
LoadDesignFromJson_Rebuilds(content, designs) ==
    IF content.kind = "data" /\ content.commas = 1 /\ content.body.enc = "ok"
       /\ Loads(content.body.text).ok
       /\ Loads(content.body.text).v.t = "obj"
       /\ "design_name" \in DOMAIN Loads(content.body.text).v.o
       /\ Hashable(Loads(content.body.text).v.o["design_name"])
    THEN [designs |-> Put(<<>>, Loads(content.body.text).v.o["design_name"],
                          Loads(content.body.text).v),
          outcome |-> "return"]
    ELSE [designs |-> designs, outcome |-> "return"]

\* load_design_from_json: the map afterwards, and whether the callback
\* returned or raised
LoadDesignFromJson(content, designs) ==
    IF content.kind = "none" THEN [designs |-> designs, outcome |-> "return"]
    ELSE IF ~DecodesToBytes(content) THEN [designs |-> designs, outcome |-> "raise"]
    ELSE LET parsed == IF content.body.enc = "ok" THEN Loads(content.body.text)
                       ELSE ParseFail
             unchanged == [designs |-> designs, outcome |-> "return"]
         IN  IF ~parsed.ok THEN unchanged
             ELSE LET design_data == parsed.v
                      has == ContainsDesignName(design_data)
                  IN  IF ~has.ok THEN unchanged
                      ELSE IF ~has.v THEN unchanged
                      ELSE IF design_data.t # "obj" THEN unchanged
                      ELSE IF ~Hashable(design_data.o["design_name"]) THEN unchanged
                      ELSE [designs |-> Put(designs, design_data.o["design_name"],
                                            design_data),
                            outcome |-> "return"]

\* wizard load_design: `if content:` and design_data.get("design_name","DesignX")
WizardLoadDesign(content, designs) ==
    IF content.kind \in {"none", "empty"}
    THEN [designs |-> designs, outcome |-> "return"]
    ELSE IF ~DecodesToBytes(content) THEN [designs |-> designs, outcome |-> "raise"]
    ELSE LET parsed == IF content.body.enc = "ok" THEN Loads(content.body.text)
                       ELSE ParseFail
             unchanged == [designs |-> designs, outcome |-> "return"]
         IN  IF ~parsed.ok THEN unchanged
             ELSE LET design_data == parsed.v
                  IN  IF design_data.t # "obj" THEN unchanged
                      ELSE LET name == Get(design_data.o, "design_name", JStr("DesignX"))
                           IN  IF ~Hashable(name) THEN unchanged
                               ELSE [designs |-> Put(designs, name, design_data),
                                     outcome |-> "return"]

(* Uploaded files *)

DesignFile(name, entry_diam) ==
    JObj([k \in {"design_name", "entry_diam"} |->
            IF k = "design_name" THEN name ELSE JNum(entry_diam)])

UploadedValues ==
    {DesignFile(JStr("A"), 14), DesignFile(JStr("A"), 15),
     DesignFile(JStr("B"), 14), DesignFile(JNull, 14),
     DesignFile(JArr(<<JStr("A")>>), 14),
     JObj([k \in {"entry_diam"} |-> JNum(14)]),
     JArr(<<JStr("design_name")>>), JStr("design_name"), JNum(14)}

Contents ==
    {NoContent, EmptyContent}
        \cup {DataUrl(1, Base64Of(Dumps(v))) : v \in UploadedValues}
        \cup {DataUrl(1, Base64Of(SubSeq(Dumps(DesignFile(JStr("B"), 14)), 1, 4))),
              DataUrl(1, [enc |-> "bad_utf8"]),
              DataUrl(1, [enc |-> "bad_padding"]),
              DataUrl(0, Base64Of(Dumps(DesignFile(JStr("B"), 14)))),
              DataUrl(2, Base64Of(Dumps(DesignFile(JStr("B"), 14))))}

\* a file is uploaded in the main app
UploadDesign(content) ==
    /\ stored_designs' = LoadDesignFromJson(content, stored_designs).designs
    /\ UNCHANGED <<compareVars, wizardVars, wizard_stored_designs, callVars>>

\* a save under another name than the one typed
SaveDesignToMemory_FixedKey(design_name, bore_shape, exterior_shape, entry_diam, exit_diam, length_mm, resolution, material, sim_data, designs) ==
    IF ~Truthy(design_name) THEN designs
    ELSE Put(designs, JStr("A"),
             JObj([k \in {"bore_shape", "simulation"} |->
                     IF k = "bore_shape" THEN bore_shape ELSE sim_data]))

\* save_design_to_memory: the stored designs after the call
SaveDesignToMemory(design_name, bore_shape, exterior_shape, entry_diam, exit_diam, length_mm, resolution, material, sim_data, designs) ==
    IF ~Truthy(design_name) THEN designs
    ELSE LET design_dict ==
                 JObj([k \in {"bore_shape", "exterior_shape", "entry_diam",
                              "exit_diam", "length_mm", "resolution", "material",
                              "simulation"} |->
                         CASE k = "bore_shape" -> bore_shape
                           [] k = "exterior_shape" -> exterior_shape
                           [] k = "entry_diam" -> entry_diam
                           [] k = "exit_diam" -> exit_diam
                           [] k = "length_mm" -> length_mm
                           [] k = "resolution" -> resolution
                           [] k = "material" -> material
                           [] k = "simulation" -> sim_data])
         IN  Put(designs, design_name, design_dict)

\* the save button is pressed in the main app, the name box holding
\* design_name (None while untouched) and the entry-diameter input entry_diam
SaveDesign(design_name, entry_diam, sim_data) ==
    /\ stored_designs' =
          SaveDesignToMemory(design_name, JStr("Cylindrical"),
              JStr("Standard (parallel exterior)"), entry_diam, JNum(15),
              JNum(66), JStr("Medium"), JStr("Grenadilla"), sim_data,
              stored_designs)
    /\ UNCHANGED <<compareVars, wizardVars, wizard_stored_designs, callVars>>

\* a file is uploaded in the wizard
WizardUploadDesign(content) ==
    /\ wizard_stored_designs' =
          WizardLoadDesign(content, wizard_stored_designs).designs
    /\ UNCHANGED <<compareVars, wizardVars, stored_designs, callVars>>

-----------------------------------------------------------------------------
(* geometry.py, wizard_app.py: generate_barrel_profile *)

BoreShapes == {"Cylindrical", "Tapered", "Reverse Tapered", "Parabolic", "Stepped"}

Half == Rat(1, 2)
One == R(1)

\* the step already widens the sample at the middle of the barrel
ShapedDiameter_StepAtHalf(bore_shape, diameter, fraction, taper, parabola, step) ==
    CASE bore_shape = "Tapered" ->
            RMul(diameter, RAdd(R(1), RMul(taper, fraction)))
      [] bore_shape = "Reverse Tapered" ->
            RMul(diameter, RAdd(R(1), RMul(taper, RSub(R(1), fraction))))
      [] bore_shape = "Parabolic" ->
            RMul(diameter, RAdd(R(1), RMul(parabola, RSquare(RSub(fraction, Rat(1, 2))))))
      [] bore_shape = "Stepped" ->
            IF RLe(Rat(1, 2), fraction) THEN RMul(diameter, step) ELSE diameter
      [] OTHER -> diameter

\* the shape tweak: diameter *= modifier, with the taper, parabola and step
\* constants of the file at hand
ShapedDiameter(bore_shape, diameter, fraction, taper, parabola, step) ==
    CASE bore_shape = "Tapered" ->
            RMul(diameter, RAdd(One, RMul(taper, fraction)))
      [] bore_shape = "Reverse Tapered" ->
            RMul(diameter, RAdd(One, RMul(taper, RSub(One, fraction))))
      [] bore_shape = "Parabolic" ->
            RMul(diameter, RAdd(One, RMul(parabola, RSquare(RSub(fraction, Half)))))
      [] bore_shape = "Stepped" ->
            IF RLt(Half, fraction) THEN RMul(diameter, step) ELSE diameter
      [] OTHER -> diameter

\* a bug the sampling claim must catch: the step is length / num_points
XVals_ShortStep(length_mm, num_points) ==
    [j \in 1..num_points |-> RMul(R(j - 1), RDiv(length_mm, R(num_points)))]

\* x_vals = [i * (length_mm / (num_points - 1)) for i in range(num_points)]
XVals(length_mm, num_points) ==
    [j \in 1..num_points |-> RMul(R(j - 1), RDiv(length_mm, R(num_points - 1)))]

DiamVals(bore_shape, entry_diam, exit_diam, num_points, taper, parabola, step) ==
    [j \in 1..num_points |->
        LET fraction == Rat(j - 1, num_points - 1)
            diameter == RAdd(entry_diam, RMul(fraction, RSub(exit_diam, entry_diam)))
        IN  ShapedDiameter(bore_shape, diameter, fraction, taper, parabola, step)]

\* {"Low": 10, "Medium": 30, "High": 60}.get(resolution, 30)
NumPointsOf(resolution) ==
    CASE resolution = "Low" -> 10
      [] resolution = "Medium" -> 30
      [] resolution = "High" -> 60
      [] OTHER -> 30

\* geometry.py generate_barrel_profile: (x_vals, diam_vals)
GenerateBarrelProfile(bore_shape, entry_diam, exit_diam, length_mm, resolution) ==
    LET num_points == Max(NumPointsOf(resolution), 2)
    IN  [x_vals |-> XVals(length_mm, num_points),
         diam_vals |-> DiamVals(bore_shape, entry_diam, exit_diam, num_points,
                                Rat(1, 10), Rat(15, 100), Rat(105, 100))]

\* wizard_app.py generate_barrel_profile: resolution is the number of points
WizardGenerateBarrelProfile(bore_shape, entry_diam, exit_diam, length_mm, resolution) ==
    LET num_points == IF resolution < 2 THEN 2 ELSE resolution
    IN  [x_vals |-> XVals(length_mm, num_points),
         diam_vals |-> DiamVals(bore_shape, entry_diam, exit_diam, num_points,
                                Rat(5, 100), Rat(1, 10), Rat(102, 100))]

Diameters == {R(14), Rat(76, 5)}
Lengths == {R(66), Rat(29, 2)}
\* the dropdown's three options, and "None" for a cleared dropdown
Resolutions == {"Low", "Medium", "High", "None"}

CallGenerateBarrelProfile ==
    /\ call.op = "none"
    /\ \E shape \in BoreShapes, entry \in Diameters, exit \in Diameters,
          length \in Lengths, resolution \in Resolutions :
          /\ call' = [op |-> "generate_barrel_profile", file |-> "geometry.py",
                      bore_shape |-> shape, entry_diam |-> entry,
                      exit_diam |-> exit, length_mm |-> length,
                      resolution |-> resolution]
          /\ ret' = GenerateBarrelProfile(shape, entry, exit, length, resolution)
    /\ UNCHANGED <<compareVars, wizardVars, designVars>>

CallWizardGenerateBarrelProfile ==
    /\ call.op = "none"
    /\ \E shape \in BoreShapes, entry \in Diameters, exit \in Diameters,
          length \in Lengths, resolution \in (-1)..MaxResolution :
          /\ call' = [op |-> "generate_barrel_profile", file |-> "wizard_app.py",
                      bore_shape |-> shape, entry_diam |-> entry,
                      exit_diam |-> exit, length_mm |-> length,
                      resolution |-> resolution]
          /\ ret' = WizardGenerateBarrelProfile(shape, entry, exit, length, resolution)
    /\ UNCHANGED <<compareVars, wizardVars, designVars>>

-----------------------------------------------------------------------------
(* geometry.py, simulation.py, barrel.py: mock_thickness_map *)

Hourglass == "Hourglass (waist tapered)"
ReverseTaper == "Reverse Taper (bulged center)"
UserDefined == "User-Defined"

\* thickness = (bore * outer_factor - bore) / 2.0
Thickness(bore, outer_factor) ==
    RDiv(RSub(RMul(bore, outer_factor), bore), R(2))

Return(value) == [outcome |-> "return", value |-> value]

\* geometry.py (fraction_base is len(x_vals) - 1) and barrel.py (fraction_base
\* is max(1, len(x_vals) - 1)): the outer factor of sample j, counted from 1
OuterFactor(x_vals, j, exterior_shape, length, fraction_base) ==
    CASE exterior_shape = Hourglass ->
            RSub(Rat(11, 10),
                 RMul(Rat(5, 10000), RAbs(RSub(x_vals[j], RMul(Half, length)))))
      [] exterior_shape = "Bell-like Flare (tuned for resonance)" ->
            RAdd(One, RMul(Rat(2, 10), Rat(j - 1, fraction_base)))
      [] exterior_shape = ReverseTaper ->
            RAdd(One, RMul(Rat(25, 100),
                 RSub(One, RSquare(RSub(Rat(j - 1, fraction_base), Half)))))
      [] exterior_shape = "Standard (parallel exterior)" -> Rat(105, 100)
      [] exterior_shape = UserDefined ->
            RAdd(One, RMul(Rat(5, 100), Rat(j - 1, fraction_base)))
      [] OTHER -> One

\* the shapes whose factor divides by len(x_vals) - 1
DividesByCount(exterior_shape) ==
    exterior_shape \in {"Bell-like Flare (tuned for resonance)", ReverseTaper,
                        UserDefined}

\* geometry.py mock_thickness_map
MockThicknessMap(x_vals, bore_diam_vals, exterior_shape) ==
    IF Len(x_vals) = 0 THEN Return(<<>>)
    ELSE IF Len(x_vals) = 1 /\ DividesByCount(exterior_shape)
         THEN Raise("ZeroDivisionError")
    ELSE LET length == RSub(x_vals[Len(x_vals)], x_vals[1])
         IN  Return([j \in 1..Len(x_vals) |->
                Thickness(bore_diam_vals[j],
                    OuterFactor(x_vals, j, exterior_shape, length,
                                Len(x_vals) - 1))])

\* barrel.py mock_thickness_map
BarrelMockThicknessMap(x_vals, bore_diam_vals, exterior_shape) ==
    LET length == IF Len(x_vals) > 0 THEN RSub(x_vals[Len(x_vals)], x_vals[1])
                  ELSE R(0)
    IN  Return([j \in 1..Len(x_vals) |->
            Thickness(bore_diam_vals[j],
                OuterFactor(x_vals, j, exterior_shape, length,
                            Max(1, Len(x_vals) - 1)))])

\* simulation.py: the outer factor at frac = x / length
SimulationOuterFactor(frac, exterior_shape) ==
    CASE exterior_shape = "Standard" -> Rat(105, 100)
      [] exterior_shape = Hourglass ->
            RSub(Rat(11, 10), RMul(Rat(2, 10), RAbs(RSub(frac, Half))))
      [] exterior_shape = ReverseTaper ->
            RAdd(One, RMul(Rat(15, 100), RSub(One, RSquare(RSub(frac, Half)))))
      [] exterior_shape = "Bell-like Flare (tuned)" ->
            RAdd(One, RMul(Rat(25, 100), frac))
      [] exterior_shape = UserDefined -> RAdd(One, RMul(Rat(5, 100), frac))
      [] OTHER -> One

\* simulation.py mock_thickness_map
SimulationMockThicknessMap(x_vals, bore_diam_vals, exterior_shape) ==
    IF Len(x_vals) = 0 \/ Len(bore_diam_vals) = 0
       \/ Len(x_vals) # Len(bore_diam_vals)
    THEN Return(<<>>)
    ELSE LET length == RSub(x_vals[Len(x_vals)], x_vals[1])
         IN  Return([j \in 1..Len(x_vals) |->
                LET frac == IF length = R(0) THEN R(0)
                            ELSE RDiv(x_vals[j], length)
                IN  Thickness(bore_diam_vals[j],
                              SimulationOuterFactor(frac, exterior_shape))])

ExteriorShapes ==
    {"Standard (parallel exterior)", "Standard", Hourglass,
     "Bell-like Flare (tuned for resonance)", "Bell-like Flare (tuned)",
     ReverseTaper, UserDefined}

\* profile curves: positions with the bore diameter at each
Curve(xs, ds) == [x_vals |-> xs, bore_diam_vals |-> ds]

Curves ==
    {Curve(<<>>, <<>>),
     Curve(<<R(0)>>, <<R(14)>>),
     Curve(<<R(0), R(66)>>, <<Rat(74, 5), Rat(76, 5)>>),
     Curve(<<R(0), R(33), R(66)>>, <<R(14), R(14), R(14)>>),
     Curve(<<R(0), R(33), R(66)>>, <<Rat(74, 5), R(15), Rat(76, 5)>>),
     Curve(<<R(0), R(500), R(1000)>>, <<R(14), R(14), R(14)>>),
     Curve(<<R(100), R(133), R(166)>>, <<R(14), R(14), R(14)>>)}

ThicknessCall(file, curve, shape) ==
    [op |-> "mock_thickness_map", file |-> file, x_vals |-> curve.x_vals,
     bore_diam_vals |-> curve.bore_diam_vals, exterior_shape |-> shape]

CallMockThicknessMap ==
    /\ call.op = "none"
    /\ \E curve \in Curves, shape \in ExteriorShapes :
          /\ call' = ThicknessCall("geometry.py", curve, shape)
          /\ ret' = MockThicknessMap(curve.x_vals, curve.bore_diam_vals, shape)
    /\ UNCHANGED <<compareVars, wizardVars, designVars>>

CallBarrelMockThicknessMap ==
    /\ call.op = "none"
    /\ \E curve \in Curves, shape \in ExteriorShapes :
          /\ call' = ThicknessCall("barrel.py", curve, shape)
          /\ ret' = BarrelMockThicknessMap(curve.x_vals, curve.bore_diam_vals, shape)
    /\ UNCHANGED <<compareVars, wizardVars, designVars>>

CallSimulationMockThicknessMap ==
    /\ call.op = "none"
    /\ \E curve \in Curves, shape \in ExteriorShapes :
          /\ call' = ThicknessCall("simulation.py", curve, shape)
          /\ ret' = SimulationMockThicknessMap(curve.x_vals, curve.bore_diam_vals,
                                               shape)
    /\ UNCHANGED <<compareVars, wizardVars, designVars>>

-----------------------------------------------------------------------------
(* geometry.py: build_unfolded_bore_outline *)

\* a row of the bore table: positions in mm along the axis, diameters in mm
BoreSegment(start_pos, end_pos, start_dia, end_dia) ==
    [start_pos |-> start_pos, end_pos |-> end_pos,
     start_dia |-> start_dia, end_dia |-> end_dia]

\* sorted(bore_data, key=lambda seg: seg["start_pos"]): Python's sort is
\* stable, so segments with equal start_pos keep their input order
RECURSIVE SortedByStartPos(_)
SortedByStartPos(bore_data) ==
    IF bore_data = <<>> THEN <<>>
    ELSE LET n == Len(bore_data)
             front == SortedByStartPos(SubSeq(bore_data, 1, n - 1))
             seg == bore_data[n]
             k == Cardinality({i \in 1..Len(front) :
                                  front[i].start_pos <= seg.start_pos})
         IN  SubSeq(front, 1, k) \o <<seg>> \o SubSeq(front, k + 1, Len(front))

\* the bottom edge walks the sorted segments in the same order as the top edge
BuildUnfoldedBoreOutline_Unreversed(bore_data) ==
    IF bore_data = <<>> THEN Return([outline_x |-> <<>>, outline_y |-> <<>>])
    ELSE
    LET sorted_segments == SortedByStartPos(bore_data)
        n == Len(sorted_segments)
        top_edge == [i \in 1..(2 * n) |->
            LET seg == sorted_segments[(i + 1) \div 2]
            IN  IF i % 2 = 1 THEN <<seg.start_pos, Rat(seg.start_dia, 2)>>
                ELSE <<seg.end_pos, Rat(seg.end_dia, 2)>>]
        bot_edge == [i \in 1..(2 * n) |->
            LET seg == sorted_segments[(i + 1) \div 2]
            IN  IF i % 2 = 1 THEN <<seg.end_pos, Rat(-seg.end_dia, 2)>>
                ELSE <<seg.start_pos, Rat(-seg.start_dia, 2)>>]
        points == top_edge \o bot_edge
    IN  Return([outline_x |-> [i \in 1..(4 * n) |-> points[i][1]],
                outline_y |-> [i \in 1..(4 * n) |-> points[i][2]]])

BuildUnfoldedBoreOutline(bore_data) ==
    IF bore_data = <<>> THEN Return([outline_x |-> <<>>, outline_y |-> <<>>])
    ELSE
    LET sorted_segments == SortedByStartPos(bore_data)
        n == Len(sorted_segments)
        \* top_edge: (x0, d0 / 2.0), (x1, d1 / 2.0) for each segment in order
        top_edge == [i \in 1..(2 * n) |->
            LET seg == sorted_segments[(i + 1) \div 2]
            IN  IF i % 2 = 1 THEN <<seg.start_pos, Rat(seg.start_dia, 2)>>
                ELSE <<seg.end_pos, Rat(seg.end_dia, 2)>>]
        \* bot_edge: (x1, -(d1 / 2.0)), (x0, -(d0 / 2.0)) for each segment of
        \* reversed(sorted_segments)
        bot_edge == [i \in 1..(2 * n) |->
            LET seg == sorted_segments[n + 1 - ((i + 1) \div 2)]
            IN  IF i % 2 = 1 THEN <<seg.end_pos, Rat(-seg.end_dia, 2)>>
                ELSE <<seg.start_pos, Rat(-seg.start_dia, 2)>>]
        points == top_edge \o bot_edge
    IN  Return([outline_x |-> [i \in 1..(4 * n) |-> points[i][1]],
                outline_y |-> [i \in 1..(4 * n) |-> points[i][2]]])

\* rows a user can type into the bore table: two that share start_pos 0, a
\* chain of abutting segments, and two whose start_pos is not below end_pos
BoreSegments ==
    {BoreSegment(0, 10, 14, 14), BoreSegment(0, 5, 12, 14),
     BoreSegment(5, 10, 14, 12), BoreSegment(10, 15, 12, 12),
     BoreSegment(10, 10, 14, 14), BoreSegment(5, 0, 12, 12)}

CallBuildUnfoldedBoreOutline ==
    /\ call.op = "none"
    /\ \E n \in 0..MaxSegments : \E bore_data \in [1..n -> BoreSegments] :
          /\ call' = [op |-> "build_unfolded_bore_outline", bore_data |-> bore_data]
          /\ ret' = BuildUnfoldedBoreOutline(bore_data)
    /\ UNCHANGED <<compareVars, wizardVars, designVars>>

-----------------------------------------------------------------------------
(* simulation.py, barrel.py, wizard_app.py, deepseek.py: simulation results *)

\* round(x, ndigits) on a number taken exactly: to the nearest multiple of
\* 10^-ndigits, a tie going to the even neighbour
RoundTo(x, ndigits) ==
    LET scale == 10 ^ ndigits
        p == x.n * scale
        fl == p \div x.d
        twice_rest == 2 * (p - fl * x.d)
        rounded == IF twice_rest < x.d THEN fl
                   ELSE IF twice_rest > x.d THEN fl + 1
                   ELSE IF fl % 2 = 0 THEN fl ELSE fl + 1
    IN  Rat(rounded, scale)

\* random.uniform(a, b) is a + (b - a) * random(), u being the value of
\* random(), a number of [0, 1)
Uniform(a, b, u) == RAdd(a, RMul(RSub(b, a), u))

\* list(range(start, stop, step)) for a positive step
PyRange(start, stop, step) ==
    [i \in 1..((stop - start + step - 1) \div step) |-> start + (i - 1) * step]

\* simulation.py run_mock_simulation (barrel.py holds a copy); its three arguments are
\* not read. rng holds the values random() hands out: one for f1, one for
\* the resistance, one per frequency, one for harmonicity, one for brightness
RunMockSimulation(rng) ==
    LET f1 == RoundTo(RAdd(R(450), Uniform(R(-30), R(30), rng.f1)), 2)
        freq == PyRange(100, 2000, 50)
        impedance == [i \in 1..Len(freq) |->
                         Uniform(Rat(1, 2), Rat(3, 2), rng.impedance[i])]
    IN  Return([f1 |-> f1,
                cutoff |-> RoundTo(RMul(f1, Rat(22, 10)), 2),
                resistance |-> RoundTo(Uniform(R(20), R(80), rng.resistance), 2),
                freq |-> freq,
                impedance_curve |-> impedance,
                admittance_curve |-> [i \in 1..Len(freq) |-> RDiv(R(1), impedance[i])],
                harmonicity |-> RoundTo(Uniform(Rat(7, 10), Rat(95, 100),
                                                rng.harmonicity), 3),
                brightness |-> RoundTo(Uniform(Rat(3, 10), Rat(8, 10),
                                               rng.brightness), 3)])

\* sum(values); the numbers being exact, the order of the additions does
\* not show, and the list is added up by halves
Sum(values) ==
    LET RECURSIVE Between(_, _)
        Between(first, last) ==
            IF first > last THEN R(0)
            ELSE IF first = last THEN values[first]
            ELSE RAdd(Between(first, (first + last) \div 2),
                      Between((first + last) \div 2 + 1, last))
    IN  Between(1, Len(values))

\* wizard_app.py run_mock_simulation
WizardRunMockSimulation(bore_shape, entry_diam, exit_diam, length_mm, resolution, material, rng) ==
    LET d_vals == WizardGenerateBarrelProfile(bore_shape, entry_diam, exit_diam,
                                              length_mm, resolution).diam_vals
        avg_dia == IF d_vals # <<>> THEN RDiv(Sum(d_vals), R(Len(d_vals)))
                   ELSE R(14)
        f1 == RoundTo(RAdd(RAdd(R(450), RMul(RSub(avg_dia, R(14)), R(3))),
                           Uniform(R(-10), R(10), rng.f1)), 2)
        cutoff == RoundTo(RMul(f1, R(2)), 2)
        freq == PyRange(100, 2000, 100)
        impedance == [i \in 1..Len(freq) |->
            RMul(Uniform(Rat(1, 2), Rat(3, 2), rng.impedance[i]),
                 RAdd(R(1), RDiv(RSub(avg_dia, R(14)), R(100))))]
        mat_factor == CASE material = "Hard Rubber" -> Rat(95, 100)
                        [] material = "African Blackwood" -> Rat(105, 100)
                        [] OTHER -> R(1)
    IN  IF \E i \in 1..Len(freq) : impedance[i] = R(0)
        THEN Raise("ZeroDivisionError")
        ELSE Return([f1 |-> RMul(f1, mat_factor),
                     cutoff |-> RMul(cutoff, mat_factor),
                     freq |-> freq,
                     impedance_curve |-> impedance,
                     admittance_curve |-> [i \in 1..Len(freq) |->
                                              RDiv(R(1), impedance[i])],
                     brightness |-> RoundTo(Uniform(Rat(3, 10), Rat(8, 10),
                                                    rng.brightness), 3),
                     harmonicity |-> RoundTo(Uniform(Rat(7, 10), Rat(95, 100),
                                                     rng.harmonicity), 3)])

\* np.linspace(100, 2000, 100)
Frequencies == [i \in 1..100 |-> RAdd(R(100), Rat((i - 1) * 1900, 99))]

\* frequencies[np.argmax(np.abs(impedance))]: the first largest magnitude
FirstResonance(magnitudes) ==
    Frequencies[CHOOSE i \in 1..Len(magnitudes) :
        /\ \A j \in 1..Len(magnitudes) : RLe(magnitudes[j], magnitudes[i])
        /\ \A j \in 1..(i - 1) : RLt(magnitudes[j], magnitudes[i])]

\* deepseek.py run_simulation, the stored results of the pair it returns;
\* dividing an empty input (None) raises TypeError inside the try.
\* engine is what InstrumentGeometry and ImpedanceComputation come to for the
\* cone: an exception, or the magnitudes np.abs(impedance) at the hundred
\* frequencies. numpy divides by a zero magnitude without raising: 1/0 is inf,
\* written here as the fraction 1/0.
DeepseekRunSimulation(n_clicks, params, engine) ==
    IF "py_none" \in DOMAIN params THEN Return(EmptyDict)
    ELSE IF \E key \in {"length_mm", "entry_diam", "exit_diam"} :
                "py_none" \in DOMAIN params[key]
         THEN Return(EmptyDict)
    ELSE IF engine.outcome = "raise" THEN Return(EmptyDict)
    ELSE Return([frequencies |-> Frequencies,
                 impedance |-> engine.value,
                 admittance |-> [i \in 1..Len(engine.value) |->
                                    RDiv(R(1), engine.value[i])],
                 f1 |-> FirstResonance(engine.value)])

\* the draws of one run. random() is a number of [0, 1): its low end, its
\* middle, and two values that leave something to round. Each single draw
\* takes any of them, the impedance curve takes them in turn from any start
Rngs ==
    LET unit == <<R(0), Rat(1, 7), Rat(1, 2), Rat(6, 7)>>
    IN  {[f1 |-> unit[a], resistance |-> unit[b],
          harmonicity |-> unit[c], brightness |-> unit[d],
          impedance |-> [i \in DOMAIN PyRange(100, 2000, 50) |->
                            unit[((i + o) % Len(unit)) + 1]]] :
            a \in 1..4, b \in 1..4, c \in 1..4, d \in 1..4, o \in 1..4}

CallRunMockSimulation ==
    /\ call.op = "none"
    /\ \E rng \in Rngs :
          /\ call' = [op |-> "run_mock_simulation", file |-> "simulation.py",
                      rng |-> rng]
          /\ ret' = RunMockSimulation(rng)
    /\ UNCHANGED <<compareVars, wizardVars, designVars>>

CallWizardRunMockSimulation ==
    /\ call.op = "none"
    /\ \E rng \in {r \in Rngs : r.resistance = R(0)},
          entry \in {R(-86), Rat(74, 5)}, exit \in {R(-86), Rat(76, 5)},
          resolution \in {0, 3}, material \in {"Hard Rubber", "Composite"} :
          /\ call' = [op |-> "run_mock_simulation", file |-> "wizard_app.py",
                      rng |-> rng, entry_diam |-> entry, exit_diam |-> exit,
                      resolution |-> resolution, material |-> material]
          /\ ret' = WizardRunMockSimulation("Cylindrical", entry, exit, R(66),
                                            resolution, material, rng)
    /\ UNCHANGED <<compareVars, wizardVars, designVars>>

\* outcomes of the engine: it raises, or it answers with magnitudes, a zero
\* among them or not
EngineOutcomes ==
    {Raise("engine error")} \cup
    {Return([i \in 1..100 |-> IF i % m = 0 THEN top ELSE Rat(1, 2)]) :
        m \in 2..MaxPeak, top \in {R(0), R(3)}}

\* the design-params store (update_design_params): nothing stored yet, a
\* design whose length input is empty, two designs, a design with a negative
\* number typed for the entry diameter
DesignParams ==
    {PyNone,
     [entry_diam |-> R(14), exit_diam |-> Rat(76, 5), length_mm |-> PyNone],
     [entry_diam |-> R(14), exit_diam |-> Rat(76, 5), length_mm |-> R(66)],
     [entry_diam |-> R(15), exit_diam |-> R(15), length_mm |-> R(60)],
     [entry_diam |-> R(-14), exit_diam |-> R(15), length_mm |-> R(60)]}

CallDeepseekRunSimulation ==
    /\ call.op = "none"
    /\ \E params \in DesignParams, engine \in EngineOutcomes :
          /\ call' = [op |-> "run_simulation", file |-> "deepseek.py",
                      params |-> params, engine |-> engine]
          /\ ret' = DeepseekRunSimulation(1, params, engine)
    /\ UNCHANGED <<compareVars, wizardVars, designVars>>

-----------------------------------------------------------------------------
(* simulation.py, barrel.py, wizard_app.py: performance comments *)

\* a resistance of exactly 30 is taken for free-blowing
EvaluateBarrelAttributes_LowBoundary(sim_results) ==
    Return(<<IF RLe(sim_results.resistance, R(30))
             THEN [text |-> "Very free-blowing (low resistance)."]
             ELSE IF RLt(sim_results.resistance, R(70))
             THEN [text |-> "Moderate resistance"]
             ELSE [text |-> "High resistance"],
             IF RLt(sim_results.brightness, Rat(4, 10))
             THEN [text |-> "Leans toward a darker or warmer timbre."]
             ELSE IF RLt(sim_results.brightness, Rat(6, 10))
             THEN [text |-> "Moderately bright"]
             ELSE [text |-> "Quite bright"]>>)

\* simulation.py and barrel.py evaluate_barrel_attributes: the comments of the
\* list it returns, each named by its opening words
EvaluateBarrelAttributes(sim_results) ==
    IF ~({"resistance", "brightness", "harmonicity"} \subseteq DOMAIN sim_results)
    THEN Raise("KeyError")
    ELSE
    Return(<<IF RLt(sim_results.resistance, R(30))
             THEN [text |-> "Very free-blowing (low resistance)."]
             ELSE IF RLt(sim_results.resistance, R(70))
             THEN [text |-> "Moderate resistance"]
             ELSE [text |-> "High resistance"],
             IF RLt(sim_results.brightness, Rat(4, 10))
             THEN [text |-> "Leans toward a darker or warmer timbre."]
             ELSE IF RLt(sim_results.brightness, Rat(6, 10))
             THEN [text |-> "Moderately bright"]
             ELSE [text |-> "Quite bright"]>>
           \o (IF RLe(Rat(85, 100), sim_results.harmonicity)
               THEN <<[text |-> "Overtones align well (high harmonicity)"]>>
               ELSE IF RLt(sim_results.harmonicity, Rat(75, 100))
               THEN <<[text |-> "Lower harmonicity"]>>
               ELSE <<>>))

\* wizard_app.py evaluate_barrel_performance: the lines it joins with "\n";
\* the two frequency lines carry the number printed with two decimals
EvaluateBarrelPerformance(sim_results) ==
    IF sim_results = EmptyDict
    THEN Return(<<[text |-> "No simulation results yet."]>>)
    ELSE
    LET br == Get(sim_results, "brightness", Rat(5, 10))
        har == Get(sim_results, "harmonicity", Rat(8, 10))
    IN  Return(<<[text |-> "First resonance (f1): Hz",
                  hz |-> RoundTo(Get(sim_results, "f1", R(0)), 2)],
                 [text |-> "Cutoff frequency: Hz",
                  hz |-> RoundTo(Get(sim_results, "cutoff", R(0)), 2)],
                 IF RLt(br, Rat(4, 10)) THEN [text |-> "Timbre: Dark/Warm"]
                 ELSE IF RLt(br, Rat(6, 10))
                 THEN [text |-> "Timbre: Moderately bright"]
                 ELSE [text |-> "Timbre: Quite bright"]>>
               \o (IF RLt(Rat(85, 100), har)
                   THEN <<[text |-> "Harmonicity: Overtones align well (very pure)"]>>
                   ELSE IF RLt(har, Rat(75, 100))
                   THEN <<[text |-> "Harmonicity: Overtones somewhat mismatched (complex timbre)"]>>
                   ELSE <<>>))

\* scores a placeholder simulation can return, in hundredths for the
\* resistance and in thousandths for brightness and harmonicity: the ends of
\* each range, every threshold and its lower neighbour
Scores ==
    [resistance : {Rat(k, 100) : k \in {2000, 2999, 3000, 6999, 7000, 8000}},
     brightness : {Rat(k, 1000) : k \in {300, 399, 400, 599, 600, 800}},
     harmonicity : {Rat(k, 1000) : k \in {700, 749, 750, 800, 849, 850, 851, 950}}]

CallEvaluateBarrelAttributes ==
    /\ call.op = "none"
    /\ \E scores \in Scores, file \in {"simulation.py", "barrel.py"} :
          LET sim_results == [f1 |-> R(450), cutoff |-> R(990)] @@ scores
          IN  /\ call' = [op |-> "evaluate", file |-> file,
                          sim_results |-> sim_results]
              /\ ret' = EvaluateBarrelAttributes(sim_results)
    /\ UNCHANGED <<compareVars, wizardVars, designVars>>

CallEvaluateBarrelPerformance ==
    /\ call.op = "none"
    /\ \E scores \in Scores :
          LET sim_results ==
                  [key \in {"f1", "cutoff", "brightness", "harmonicity"} |->
                      ([f1 |-> R(450), cutoff |-> R(900)] @@ scores)[key]]
          IN  /\ scores.resistance = R(20)
              /\ call' = [op |-> "evaluate", file |-> "wizard_app.py",
                          sim_results |-> sim_results]
              /\ ret' = EvaluateBarrelPerformance(sim_results)
    /\ UNCHANGED <<compareVars, wizardVars, designVars>>

\* callbacks.py run_simulation: the data stored and the insights shown, with
\* the calls made of run_mock_simulation. An empty input (None) makes the
\* arithmetic of generate_barrel_profile raise TypeError
CallbacksRunSimulation(n_clicks, bore_shape, entry_diam, exit_diam, length_mm, resolution, exterior_shape, material, rng) ==
    IF n_clicks = 0
    THEN [outcome |-> "return", value |-> EmptyDict, simulated |-> <<>>]
    ELSE IF \E input \in {entry_diam, exit_diam, length_mm} : "py_none" \in DOMAIN input
    THEN [outcome |-> "raise", error |-> "TypeError", simulated |-> <<>>]
    ELSE
    LET profile == GenerateBarrelProfile(bore_shape, entry_diam, exit_diam,
                                         length_mm, resolution)
        thickness_vals == MockThicknessMap(profile.x_vals, profile.diam_vals,
                                           exterior_shape)
    IN  IF thickness_vals.outcome = "raise"
        THEN [outcome |-> "raise", error |-> thickness_vals.error, simulated |-> <<>>]
        ELSE
        LET avg_thickness == IF thickness_vals.value # <<>>
                             THEN RDiv(Sum(thickness_vals.value),
                                       R(Len(thickness_vals.value)))
                             ELSE R(0)
            sim_results == RunMockSimulation(rng).value
        IN  [outcome |-> "return", value |-> sim_results,
             insights |-> EvaluateBarrelAttributes(sim_results).value,
             simulated |-> <<[profile_points |-> profile.diam_vals,
                              material |-> material,
                              thickness |-> avg_thickness]>>]

CallCallbacksRunSimulation ==
    /\ call.op = "none"
    /\ \E n_clicks \in {0, 1}, bore_shape \in {"Cylindrical", "Stepped"},
          entry_diam \in {PyNone, R(0), R(-14), R(14)}, exit_diam \in {R(0), R(15)},
          length_mm \in {PyNone, R(-5), R(66)},
          rng \in {r \in Rngs : r.f1 = R(0) /\ r.resistance = R(0)
                                 /\ r.harmonicity = R(0) /\ r.brightness = R(0)} :
          /\ call' = [op |-> "run_simulation", file |-> "callbacks.py",
                      n_clicks |-> n_clicks, bore_shape |-> bore_shape,
                      entry_diam |-> entry_diam, exit_diam |-> exit_diam,
                      length_mm |-> length_mm, rng |-> rng]
          /\ ret' = CallbacksRunSimulation(n_clicks, bore_shape, entry_diam,
                        exit_diam, length_mm, "Low",
                        "Standard (parallel exterior)", "Grenadilla", rng)
    /\ UNCHANGED <<compareVars, wizardVars, designVars>>

-----------------------------------------------------------------------------
(* deepseek.py: BarrelOptimizer *)

\* the same window of 0.7..1.3 for all three variables
Bounds_OneWindow(initial_params) ==
    [i \in 1..3 |->
        LET initial == <<initial_params.entry_diam, initial_params.exit_diam,
                         initial_params.length_mm>>[i]
        IN  [lo |-> RMul(initial, Rat(7, 10)), hi |-> RMul(initial, Rat(13, 10))]]

\* optimize_geometry, the bounds list: a (low, high) pair for the entry
\* diameter, the exit diameter and the length
Bounds(initial_params) ==
    <<[lo |-> RMul(initial_params.entry_diam, Rat(8, 10)),
       hi |-> RMul(initial_params.entry_diam, Rat(12, 10))],
      [lo |-> RMul(initial_params.exit_diam, Rat(7, 10)),
       hi |-> RMul(initial_params.exit_diam, Rat(13, 10))],
      [lo |-> RMul(initial_params.length_mm, Rat(9, 10)),
       hi |-> RMul(initial_params.length_mm, Rat(11, 10))]>>

\* _run_openwind_simulation: the engine's exception passes through, its
\* magnitudes become f1 and the impedance curve
RunOpenwindSimulation(geometry, engine) ==
    IF engine.outcome = "raise" THEN engine
    ELSE Return([f1 |-> FirstResonance(engine.value),
                 impedance_curve |-> engine.value,
                 frequencies |-> Frequencies])

\* the exception numpy raises when an array of several elements is used as
\* a condition
AmbiguousTruth == "ValueError: The truth value of an array is ambiguous"

\* _cost_function for the candidate params = <<entry, exit_diam, length>>;
\* target_impedance is None, or holds the target curve as a list (curve) or
\* as a numpy array (array). `if self.target_impedance:` takes an empty list
\* for no target and cannot decide an array of more than one element
CostFunction(target_f1, target_impedance, params, engine) ==
    LET geometry == [entry_diam |-> params[1], exit_diam |-> params[2],
                     length_mm |-> params[3]]
        result == RunOpenwindSimulation(geometry, engine)
    IN  IF result.outcome = "raise" THEN result
        ELSE IF "array" \in DOMAIN target_impedance
                /\ Len(target_impedance.array) > 1
        THEN Raise(AmbiguousTruth)
        ELSE
        LET f1_error == RDiv(RAbs(RSub(result.value.f1, target_f1)), target_f1)
            curve == result.value.impedance_curve
            impedance_error ==
                IF "curve" \in DOMAIN target_impedance
                   /\ target_impedance.curve # <<>>
                THEN RDiv(Sum([i \in DOMAIN curve |->
                                  RSquare(RSub(curve[i], target_impedance.curve[i]))]),
                          R(Len(curve)))
                ELSE R(0)
        IN  Return(RAdd(RMul(Rat(7, 10), f1_error),
                        RMul(Rat(3, 10), impedance_error)))

\* optimize_geometry up to the call of minimize. A None among the inputs
\* makes the products of the bounds list raise TypeError; L-BFGS-B refuses a
\* lower bound above its upper bound with ValueError; otherwise the search
\* starts at x0 with nothing evaluated yet
CallOptimizeGeometry ==
    /\ call.op = "none"
    /\ \E initial_params \in DesignParams \ {PyNone},
          target_f1 \in {R(440), Frequencies[2]},
          target_impedance \in {PyNone, [curve |-> [i \in 1..100 |-> R(1)]],
                                [array |-> [i \in 1..100 |-> R(1)]]} :
          /\ call' = [op |-> "optimize_geometry", initial_params |-> initial_params,
                      target_f1 |-> target_f1,
                      target_impedance |-> target_impedance]
          /\ ret' =
                IF \E key \in DOMAIN initial_params :
                      "py_none" \in DOMAIN initial_params[key]
                THEN Raise("TypeError")
                ELSE IF \E i \in 1..3 : RLt(Bounds(initial_params)[i].hi,
                                            Bounds(initial_params)[i].lo)
                THEN Raise("ValueError")
                ELSE [outcome |-> "searching",
                      bounds |-> Bounds(initial_params),
                      evaluated |-> <<>>]
    /\ UNCHANGED <<compareVars, wizardVars, designVars>>

\* one evaluation of _cost_function by minimize: x0 first, then a point the
\* search picks inside the bounds it was given (here x0 or a corner of the
\* box). An exception of the engine leaves minimize and optimize_geometry
\* as it is
MinimizeEvaluate ==
    /\ call.op = "optimize_geometry"
    /\ ret.outcome = "searching"
    /\ Len(ret.evaluated) < MaxEvaluations
    /\ LET x0 == <<call.initial_params.entry_diam, call.initial_params.exit_diam,
                   call.initial_params.length_mm>>
           candidates ==
               IF ret.evaluated = <<>> THEN {x0}
               ELSE {x0} \cup
                    {<<entry, exit_diam, length>> :
                        entry \in {ret.bounds[1].lo, ret.bounds[1].hi},
                        exit_diam \in {ret.bounds[2].lo, ret.bounds[2].hi},
                        length \in {ret.bounds[3].lo, ret.bounds[3].hi}}
       IN  \E params \in candidates,
              engine \in {e \in EngineOutcomes :
                            e.outcome = "return" => e.value[2] = R(3) \/ e.value[3] = R(3)} :
              LET cost == CostFunction(call.target_f1, call.target_impedance,
                                       params, engine)
              IN  ret' = IF cost.outcome = "raise" THEN cost
                         ELSE [ret EXCEPT !.evaluated =
                                   Append(@, [params |-> params,
                                              f1 |-> FirstResonance(engine.value),
                                              impedance_curve |-> engine.value,
                                              cost |-> cost.value])]
    /\ UNCHANGED <<call, compareVars, wizardVars, designVars>>

\* minimize ends, converged (success) or stopped at its cap or in its line
\* search (no success), and optimize_geometry returns result.x, the evaluated
\* point of least cost, the earliest of them if several share it
MinimizeReturn ==
    /\ call.op = "optimize_geometry"
    /\ ret.outcome = "searching"
    /\ ret.evaluated # <<>>
    /\ \E success \in BOOLEAN :
          LET best == CHOOSE i \in DOMAIN ret.evaluated :
                  /\ \A j \in DOMAIN ret.evaluated :
                        RLe(ret.evaluated[i].cost, ret.evaluated[j].cost)
                  /\ \A j \in 1..(i - 1) :
                        RLt(ret.evaluated[i].cost, ret.evaluated[j].cost)
              x == ret.evaluated[best].params
          IN  ret' = [outcome |-> "return",
                      value |-> [entry_diam |-> x[1], exit_diam |-> x[2],
                                 length_mm |-> x[3], success |-> success],
                      evaluated |-> ret.evaluated]
    /\ UNCHANGED <<call, compareVars, wizardVars, designVars>>

-----------------------------------------------------------------------------
(* openwind_adapter.py, autotune.py: the impedance adapter and autotune *)

\* np.linspace(start, stop, num)
Linspace(start, stop, num) ==
    [i \in 1..num |->
        IF num = 1 THEN start
        ELSE RAdd(start, RDiv(RMul(R(i - 1), RSub(stop, start)), R(num - 1)))]

\* run_impedance_simulation. engine is what openwind's simulate comes to: an
\* exception, or a recording the adapter does not read. The magnitude
\* |sin(2 pi f / 1500)| * 1e6 is kept as the place f / 750 takes within its
\* half wave, [half_wave |-> t] standing for |sin(pi t)| * 1e6 with t in
\* [0, 1); the phase is 180 degrees where the sine is negative and 0 elsewhere
RunImpedanceSimulation(bore_df, temperature, material_props, freq_range, engine) ==
    IF engine.outcome = "raise" THEN engine
    ELSE
    LET f == Linspace(freq_range[1], freq_range[2], 500)
        Turns(x, period) == RDiv(x, R(period))
        Frac(x) == Rat(x.n % x.d, x.d)
    IN  Return([frequency |-> f,
                magnitude |-> [i \in DOMAIN f |->
                                  [half_wave |-> Frac(Turns(f[i], 750))]],
                phase |-> [i \in DOMAIN f |->
                              IF RLt(Rat(1, 2), Frac(Turns(f[i], 1500)))
                              THEN R(180) ELSE R(0)]])

\* a candidate takes the incumbent's place on a score that is not smaller
AutotuneBore_LastWins(bore_df, target_freq, temperature, material_props, freq_range, max_iter, fails_at) ==
    LET grid == Linspace(Rat(25, 2), R(15), max_iter)
        Candidate(k) ==
            LET diameter == Linspace(RDiv(grid[((k - 1) \div max_iter) + 1], R(1000)),
                                     RDiv(grid[((k - 1) % max_iter) + 1], R(1000)),
                                     Len(bore_df))
            IN  [i \in DOMAIN bore_df |->
                    [position |-> bore_df[i].position, diameter |-> diameter[i]]]
        last == max_iter * max_iter
    IN  IF fails_at \in 1..last
        THEN [outcome |-> "raise", error |-> "engine error",
              evaluated |-> [k \in 1..fails_at |-> Candidate(k)]]
        ELSE [outcome |-> "return",
              value |-> [best_bore |-> Candidate(last),
                         best_result |->
                             RunImpedanceSimulation(Candidate(last), temperature,
                                 material_props, freq_range, Return("rec")).value],
              evaluated |-> [k \in 1..last |-> Candidate(k)]]

\* autotune_bore. fails_at is the place in the sweep of the first candidate
\* on which the engine raises, 0 if it raises on none. The outcome carries,
\* beside the pair returned or the exception, the bores handed to
\* run_impedance_simulation, in order
AutotuneBore(bore_df, target_freq, temperature, material_props, freq_range, max_iter, fails_at) ==
    LET entry_range == Linspace(Rat(25, 2), R(15), max_iter)
        exit_range == Linspace(Rat(25, 2), R(15), max_iter)
        last == max_iter * max_iter
        \* the k-th pass of the two loops, entry_d outside and exit_d inside
        TestBore(k) ==
            LET entry_d == entry_range[((k - 1) \div max_iter) + 1]
                exit_d == exit_range[((k - 1) % max_iter) + 1]
                opt_y == Linspace(RDiv(entry_d, R(1000)), RDiv(exit_d, R(1000)),
                                  Len(bore_df))
            IN  [i \in DOMAIN bore_df |->
                    [position |-> bore_df[i].position, diameter |-> opt_y[i]]]
        Result(k) ==
            RunImpedanceSimulation(TestBore(k), temperature, material_props,
                freq_range,
                IF k = fails_at THEN Raise("engine error") ELSE Return("rec"))
        \* mag[np.argmin(np.abs(f - target_freq))]: the magnitude at the first
        \* index of the least distance
        PeakValue(result) ==
            LET f == result.frequency
                \* np.abs(f - target_freq), worked out once
                off == [i \in DOMAIN f |-> RAbs(RSub(f[i], target_freq))] \o <<>>
                RECURSIVE ArgMin(_, _)
                ArgMin(lo, hi) ==
                    IF lo = hi THEN lo
                    ELSE LET a == ArgMin(lo, (lo + hi) \div 2)
                             b == ArgMin(((lo + hi) \div 2) + 1, hi)
                         IN  IF RLt(off[b], off[a]) THEN b ELSE a
                idx == ArgMin(1, Len(f))
            IN  result.magnitude[idx]
        \* the peak value of every pass, worked out once
        peak_value == [k \in 1..last |-> PeakValue(Result(k).value)] \o <<>>
        \* |sin| grows towards the middle of its half wave
        Middle(score) == RAbs(RSub(score.half_wave, Rat(1, 2)))
        \* the loop from pass k on, best being the pass that holds best_score,
        \* best_bore and best_result; 0 while they are -inf, None and None
        RECURSIVE Sweep(_, _)
        Sweep(k, best) ==
            IF k > last THEN best
            ELSE IF best = 0
                    \/ RLt(Middle(peak_value[k]), Middle(peak_value[best]))
            THEN Sweep(k + 1, k)
            ELSE Sweep(k + 1, best)
    IN  \* the passes before fails_at have gone through; the exception of
        \* that pass, which nothing here catches, ends the sweep
        IF fails_at \in 1..last /\ Result(fails_at).outcome = "raise"
        THEN [outcome |-> "raise", error |-> Result(fails_at).error,
              evaluated |-> [i \in 1..fails_at |-> TestBore(i)]]
        ELSE LET best == Sweep(1, 0)
             IN  [outcome |-> "return",
                  value |-> [best_bore |-> TestBore(best),
                             best_result |-> Result(best).value],
                  evaluated |-> [i \in 1..last |-> TestBore(i)]]

\* bore tables of one and of two rows, positions in mm
BoreTables ==
    {<<[position |-> R(0), diameter |-> R(14)]>>,
     <<[position |-> R(0), diameter |-> R(14)],
       [position |-> R(66), diameter |-> R(15)]>>}

CallRunImpedanceSimulation ==
    /\ call.op = "none"
    /\ \E bore_df \in BoreTables, freq_range \in {<<R(200), R(2000)>>, <<R(100), R(850)>>},
          engine \in {Raise("engine error"), Return("rec")} :
          /\ call' = [op |-> "run_impedance_simulation", bore_df |-> bore_df,
                      freq_range |-> freq_range, engine |-> engine]
          /\ ret' = RunImpedanceSimulation(bore_df, 22, PyNone, freq_range, engine)
    /\ UNCHANGED <<compareVars, wizardVars, designVars>>

CallAutotuneBore ==
    /\ call.op = "none"
    /\ \E bore_df \in BoreTables, freq_range \in {<<R(200), R(2000)>>},
          target_freq \in {R(440), R(2500)}, max_iter \in 1..MaxIter :
          \E fails_at \in 0..(max_iter * max_iter) :
              /\ call' = [op |-> "autotune_bore", bore_df |-> bore_df,
                          target_freq |-> target_freq, freq_range |-> freq_range,
                          max_iter |-> max_iter, fails_at |-> fails_at]
              /\ ret' = AutotuneBore(bore_df, target_freq, 22, PyNone, freq_range,
                                     max_iter, fails_at)
    /\ UNCHANGED <<compareVars, wizardVars, designVars>>

-----------------------------------------------------------------------------
(* Initial state and specifications *)

Init ==
    /\ stored_simulation_data = EmptyDict
    /\ save_design_name = ""
    /\ stored_comparison_data = <<>>
    /\ added_log = <<>>
    /\ w3_sim_results = EmptyDict
    /\ w4_design_name = ""
    /\ w4_comparison_data = <<>>
    /\ wizard_step = 1
    /\ wizard_styles = <<style_shown, style_hidden, style_hidden, style_hidden>>
    /\ wizard_log = <<>>
    /\ stored_designs = <<>>
    /\ wizard_stored_designs = <<>>
    /\ call = [op |-> "none"]
    /\ ret = [op |-> "none"]

NextCompare == SetDesignName \/ RunSimulation \/ CompareClick

SpecCompare == Init /\ [][NextCompare]_vars

NextCompareCall == CallAddToComparison

SpecCompareCall == Init /\ [][NextCompareCall]_vars

NextWizardCompare == WizardRunSim \/ WizardSetName \/ WizardCompareClick

SpecWizardCompare == Init /\ [][NextWizardCompare]_vars

SpecWizardNav == Init /\ [][WizardNavEvent]_vars

NextSession == CallSaveLoad \/ CallLoadSession

SpecSession == Init /\ [][NextSession]_vars

NextDesigns ==
    \/ \E content \in Contents : UploadDesign(content)
    \/ \E content \in Contents : WizardUploadDesign(content)
    \/ \E design_name \in {JNull, JStr(""), JStr("A"), JStr("C")},
          entry_diam \in {JNull, JNum(14)},
          sim_data \in {JObj(EmptyDict), JObj([k \in {"f1"} |-> JNum(450)])} :
          SaveDesign(design_name, entry_diam, sim_data)

SpecDesigns == Init /\ [][NextDesigns]_vars

NextGeometry ==
    \/ CallGenerateBarrelProfile
    \/ CallWizardGenerateBarrelProfile
    \/ CallMockThicknessMap
    \/ CallBarrelMockThicknessMap
    \/ CallSimulationMockThicknessMap
    \/ CallBuildUnfoldedBoreOutline

SpecGeometry == Init /\ [][NextGeometry]_vars

NextSimulation ==
    \/ CallRunMockSimulation
    \/ CallWizardRunMockSimulation
    \/ CallDeepseekRunSimulation
    \/ CallEvaluateBarrelAttributes
    \/ CallEvaluateBarrelPerformance
    \/ CallOptimizeGeometry
    \/ MinimizeEvaluate
    \/ MinimizeReturn
    \/ CallRunImpedanceSimulation
    \/ CallAutotuneBore
    \/ CallCallbacksRunSimulation

SpecSimulation == Init /\ [][NextSimulation]_vars

-----------------------------------------------------------------------------
(* Comparison history: properties *)

Min(a, b) == IF a <= b THEN a ELSE b

\* what the entry stored for the logged addition a must hold
KeepsLogged(e, a) ==
    /\ e.name = IF a.design_name = "" THEN DesignLabel(a.shown + 1)
                ELSE a.design_name
    /\ e.f1 = a.sim["f1"]
    /\ e.cutoff = a.sim["cutoff"]
    /\ e.resistance = a.sim["resistance"]
    /\ e.brightness = a.sim["brightness"]
    /\ e.harmonicity = a.sim["harmonicity"]

\* C1: after k additions from an empty history the stored list is exactly the
\* last min(k, 5) entries added, oldest first, each with the values it was
\* added with.
C1_SlidingWindow ==
    LET k == Len(added_log)
        m == Min(k, 5)
    IN  /\ Len(stored_comparison_data) = m
        /\ \A i \in 1..m :
              KeepsLogged(stored_comparison_data[i], added_log[k - m + i])

\* six additions D1..D6 have left [D2..D6]
C1_Witness ==
    /\ Len(added_log) = 6
    /\ Len(stored_comparison_data) = 5
    /\ \E i \in 1..5 : added_log[i].sim # added_log[i + 1].sim

\* C3: a compare-button call without a simulation result returns the
\* comparison list it was given: same entries, same order.
C3_NoResultNoOp ==
    (/\ call.op = "add_to_comparison"
     /\ call.triggered_id = CompareBtn
     /\ ~TruthyDict(call.current_sim))
    => ret.data = call.comparison_data

C3_Witness ==
    /\ call.op = "add_to_comparison"
    /\ call.triggered_id = CompareBtn
    /\ ~TruthyDict(call.current_sim)
    /\ Len(call.comparison_data) = 5
    /\ ret.children = "No simulation results to compare."

\* C2 (as claimed): the wizard's comparison data never holds more than 5
\* entries.
C2_WizardAtMostFive == Len(w4_comparison_data) <= 5

-----------------------------------------------------------------------------
(* Session codec: properties *)

RoundTripsExceptMaterial ==
    /\ ret.outcome = "return"
    /\ ret.bore_df = call.bore_df
    /\ ret.temperature = call.temperature
    /\ ret.humidity = call.humidity
    /\ ret.notes = call.notes

\* C4 (as claimed): load_session(save_session(...)) returns the same profile
\* records in order, the same temperature, humidity and material value, and
\* the identical notes.
C4_RoundTrip ==
    call.op = "save_load"
    => RoundTripsExceptMaterial /\ ret.material_props = call.material_props

\* C4 (amended): as above, but the material comes back equal only when one was
\* given; an empty or missing (None) material comes back as the empty dict.
C4_RoundTripAmended ==
    call.op = "save_load"
    => /\ RoundTripsExceptMaterial
       /\ ret.material_props =
             IF Truthy(call.material_props) THEN call.material_props
             ELSE JObj(<<>>)

C4_Witness ==
    /\ call.op = "save_load"
    /\ Len(call.bore_df) = 3
    /\ call.bore_df[1] # call.bore_df[2]
    /\ call.material_props = JNull
    /\ ret.outcome = "return"
    /\ ret.material_props = JObj(<<>>)

ParsedInput == Loads(call.json_string)

HasBoreProfile(v) == v.t = "obj" /\ "bore_profile" \in DOMAIN v.o

\* C5 (as claimed): a parseable payload that has bore_profile but lacks other
\* fields loads, with notes "", material {}, temperature 22 and humidity 50 in
\* place of what is missing.
C5_MissingFieldsDefault ==
    (/\ call.op = "load_session"
     /\ ParsedInput.ok
     /\ HasBoreProfile(ParsedInput.v))
    => LET o == ParsedInput.v.o
           env == IF "environment" \in DOMAIN o THEN o["environment"].o ELSE <<>>
       IN  /\ ret.outcome = "return"
           /\ ret.notes = Get(o, "notes", JStr(""))
           /\ ret.material_props = Get(o, "material", JObj(<<>>))
           /\ ret.temperature = Get(env, "temperature", JNum(22))
           /\ ret.humidity = Get(env, "humidity", JNum(50))

\* C6: text that does not parse, or parses without a bore_profile field, ends
\* in an error and no design tuple is returned.
C6_MalformedFails ==
    (/\ call.op = "load_session"
     /\ (~ParsedInput.ok \/ ~HasBoreProfile(ParsedInput.v)))
    => ret.outcome = "raise" /\ DOMAIN ret = {"outcome", "error"}

\* a parseable session object without bore_profile was refused
C6_Witness ==
    /\ call.op = "load_session"
    /\ ParsedInput.ok
    /\ ParsedInput.v.t = "obj"
    /\ DOMAIN ParsedInput.v.o = SessionKeys \ {"bore_profile"}
    /\ ret = Raise("KeyError")

-----------------------------------------------------------------------------
(* Stored designs: properties *)

\* the map is as before, or differs at the one key in keys, which now holds
\* the whole payload
ChangesOneOf(keys, payload, before, after) ==
    \E key \in keys :
        /\ DOMAIN after = DOMAIN before \cup {key}
        /\ after[key] = payload
        /\ \A other \in DOMAIN before \ {key} : after[other] = before[other]

\* the payload of an upload, when its text parses to an object
PayloadOf(content) ==
    IF content.kind = "data" /\ content.body.enc = "ok"
    THEN LET parsed == Loads(content.body.text)
         IN  IF parsed.ok /\ parsed.v.t = "obj" THEN {parsed.v} ELSE {}
    ELSE {}

\* C7: a load-design step leaves the stored-designs map as it was, or changes
\* exactly the entry under the payload's design_name (the default key in the
\* wizard), which then holds the complete parsed payload.
C7_LoadDesignFrame ==
    [][\A content \in Contents :
          /\ UploadDesign(content)
                => \/ stored_designs' = stored_designs
                   \/ \E payload \in PayloadOf(content) :
                         ChangesOneOf(
                            IF "design_name" \in DOMAIN payload.o
                            THEN {payload.o["design_name"]} ELSE {},
                            payload, stored_designs, stored_designs')
          /\ WizardUploadDesign(content)
                => \/ wizard_stored_designs' = wizard_stored_designs
                   \/ \E payload \in PayloadOf(content) :
                         ChangesOneOf(
                            {Get(payload.o, "design_name", JStr("DesignX"))},
                            payload, wizard_stored_designs,
                            wizard_stored_designs')]_vars

\* both maps hold several designs, one of them replaced by a later upload
C7_Witness ==
    /\ JStr("A") \in DOMAIN stored_designs
    /\ JStr("B") \in DOMAIN stored_designs
    /\ stored_designs[JStr("A")] = DesignFile(JStr("A"), 15)
    /\ JStr("DesignX") \in DOMAIN wizard_stored_designs
    /\ JStr("B") \in DOMAIN wizard_stored_designs
-----------------------------------------------------------------------------
(* Profile generator: properties *)

-----------------------------------------------------------------------------
(* Thickness map: properties *)

\* C9 (as claimed): mock_thickness_map returns one thickness per sample for a
\* curve of any length, and the empty sequence, without raising, for the
\* empty curve.
C9_OneThicknessPerSample ==
    call.op = "mock_thickness_map"
    => ret.outcome = "return" /\ Len(ret.value) = Len(call.x_vals)

PositiveBore ==
    \A j \in 1..Len(call.bore_diam_vals) : RLt(R(0), call.bore_diam_vals[j])

IncreasingPositions ==
    \A j \in 1..(Len(call.x_vals) - 1) : RLt(call.x_vals[j], call.x_vals[j + 1])

\* C10 (as claimed): on a curve of positive diameters at increasing positions
\* every thickness returned, for every exterior shape, is >= 0.
C10_ThicknessNonNegative ==
    (/\ call.op = "mock_thickness_map"
     /\ PositiveBore
     /\ IncreasingPositions
     /\ ret.outcome = "return")
    => \A j \in 1..Len(ret.value) : RLe(R(0), ret.value[j])
-----------------------------------------------------------------------------
(* Unfolded bore outline: properties *)

OutlineCall == call.op = "build_unfolded_bore_outline"

\* the permutations of 1..n
Orders(n) == {p \in [1..n -> 1..n] : \A i, j \in 1..n : p[i] = p[j] => i = j}

\* C11: the empty table gives the empty outline; n >= 1 segments give 4n
\* points, the first 2n being (start_pos, start_dia/2), (end_pos, end_dia/2)
\* of the segments taken in ascending start_pos order, and point 4n-1-k
\* (counted from 0) has the x of point k and the negated y; the segment
\* {0,10,14,14} alone gives the rectangle of half-height 7.
C11_OutlineShape ==
    OutlineCall =>
        LET bore_data == call.bore_data
            n == Len(bore_data)
            x == ret.value.outline_x
            y == ret.value.outline_y
        IN  /\ ret.outcome = "return"
            /\ Len(x) = 4 * n /\ Len(y) = 4 * n
            /\ \E p \in Orders(n) :
                  /\ \A i \in 1..(n - 1) :
                        bore_data[p[i]].start_pos <= bore_data[p[i + 1]].start_pos
                  /\ \A i \in 1..n :
                        /\ x[2 * i - 1] = bore_data[p[i]].start_pos
                        /\ y[2 * i - 1] = Rat(bore_data[p[i]].start_dia, 2)
                        /\ x[2 * i] = bore_data[p[i]].end_pos
                        /\ y[2 * i] = Rat(bore_data[p[i]].end_dia, 2)
            /\ \A k \in 1..(4 * n) :
                  /\ x[4 * n + 1 - k] = x[k]
                  /\ y[4 * n + 1 - k] = RSub(R(0), y[k])
            /\ bore_data = <<BoreSegment(0, 10, 14, 14)>>
                  => /\ x = <<0, 10, 10, 0>>
                     /\ y = <<R(7), R(7), R(-7), R(-7)>>

\* three segments given out of order have been drawn as a closed outline
C11_Witness ==
    /\ OutlineCall
    /\ call.bore_data = <<BoreSegment(10, 15, 12, 12), BoreSegment(0, 5, 12, 14),
                          BoreSegment(5, 10, 14, 12)>>
    /\ ret.value.outline_x = <<0, 5, 5, 10, 10, 15, 15, 10, 10, 5, 5, 0>>
    /\ ret.value.outline_y[12] = R(-6)

\* C12 (as claimed): every permutation of the same collection of segments,
\* segments sharing a start_pos included, gives the same outline.
C12_OrderIndependent ==
    OutlineCall =>
        \A p \in Orders(Len(call.bore_data)) :
            BuildUnfoldedBoreOutline(
                [i \in 1..Len(call.bore_data) |-> call.bore_data[p[i]]]) = ret

\* C13 (as claimed): a table holding a segment with start_pos >= end_pos is
\* answered with an error, and no outline is returned for it.
C13_DegenerateRejected ==
    (/\ OutlineCall
     /\ \E i \in 1..Len(call.bore_data) :
           call.bore_data[i].start_pos >= call.bore_data[i].end_pos)
    => ret.outcome = "raise"
-----------------------------------------------------------------------------
(* Simulation results: properties *)

SimulationCall == call.op \in {"run_mock_simulation", "run_simulation"}

\* the three curves of a result, under the names the implementation gives them
CurvesOf(result) ==
    IF "freq" \in DOMAIN result
    THEN [frequency |-> result.freq, impedance |-> result.impedance_curve,
          admittance |-> result.admittance_curve]
    ELSE [frequency |-> result.frequencies, impedance |-> result.impedance,
          admittance |-> result.admittance]

\* C14 (as claimed): every result a simulation returns has a frequency axis,
\* an impedance curve and an admittance curve of one length, no impedance
\* equal to zero, and admittance[i] * impedance[i] = 1 at every index.
C14_CurvesReciprocal ==
    (SimulationCall /\ ret.outcome = "return") =>
        /\ \/ {"freq", "impedance_curve", "admittance_curve"} \subseteq DOMAIN ret.value
           \/ {"frequencies", "impedance", "admittance"} \subseteq DOMAIN ret.value
        /\ LET curves == CurvesOf(ret.value)
           IN  /\ Len(curves.frequency) = Len(curves.impedance)
               /\ Len(curves.impedance) = Len(curves.admittance)
               /\ \A i \in 1..Len(curves.impedance) :
                     /\ curves.impedance[i] # R(0)
                     /\ RMul(curves.admittance[i], curves.impedance[i]) = R(1)

\* C15 (as claimed): every result of a placeholder simulation carries a
\* resistance within [0, 100], a harmonicity within [0, 1] and a brightness
\* within [0, 1].
C15_ScoresInRange ==
    (call.op = "run_mock_simulation" /\ ret.outcome = "return") =>
        /\ {"resistance", "harmonicity", "brightness"} \subseteq DOMAIN ret.value
        /\ RLe(R(0), ret.value.resistance) /\ RLe(ret.value.resistance, R(100))
        /\ RLe(R(0), ret.value.harmonicity) /\ RLe(ret.value.harmonicity, R(1))
        /\ RLe(R(0), ret.value.brightness) /\ RLe(ret.value.brightness, R(1))
-----------------------------------------------------------------------------
(* Performance comments: properties *)

\* the texts of the comments returned, in order
Texts == [i \in DOMAIN ret.value |-> ret.value[i].text]

\* how many of the returned comments are among the given ones
Count(comments) == Cardinality({i \in DOMAIN Texts : Texts[i] \in comments})

\* C16: evaluate_barrel_attributes returns exactly one resistance comment
\* and exactly one brightness comment: free-blowing below 30, moderate from
\* 30 to below 70, high from 70; dark below 0.4, moderately bright from 0.4 to
\* below 0.6, bright from 0.6.
C16_OneCommentPerScore ==
    (call.op = "evaluate" /\ call.file \in {"simulation.py", "barrel.py"}) =>
        LET r == call.sim_results.resistance
            b == call.sim_results.brightness
        IN  /\ ret.outcome = "return"
            /\ Count({"Very free-blowing (low resistance).", "Moderate resistance",
                      "High resistance"}) = 1
            /\ Count({"Leans toward a darker or warmer timbre.",
                      "Moderately bright", "Quite bright"}) = 1
            /\ Count({"Very free-blowing (low resistance)."}) = 1 <=> RLt(r, R(30))
            /\ Count({"Moderate resistance"}) = 1
                  <=> (RLe(R(30), r) /\ RLt(r, R(70)))
            /\ Count({"High resistance"}) = 1 <=> RLe(R(70), r)
            /\ Count({"Leans toward a darker or warmer timbre."}) = 1
                  <=> RLt(b, Rat(4, 10))
            /\ Count({"Moderately bright"}) = 1
                  <=> (RLe(Rat(4, 10), b) /\ RLt(b, Rat(6, 10)))
            /\ Count({"Quite bright"}) = 1 <=> RLe(Rat(6, 10), b)

\* a result with resistance 30 and brightness 0.4 has been evaluated
C16_Witness ==
    /\ call.op = "evaluate" /\ call.file = "barrel.py"
    /\ call.sim_results.resistance = R(30)
    /\ call.sim_results.brightness = Rat(4, 10)
    /\ call.sim_results.harmonicity = Rat(8, 10)
    /\ Texts = <<"Moderate resistance", "Moderately bright">>

AlignComments ==
    {"Overtones align well (high harmonicity)",
     "Harmonicity: Overtones align well (very pure)"}

MismatchComments ==
    {"Lower harmonicity",
     "Harmonicity: Overtones somewhat mismatched (complex timbre)"}

\* C17 (as claimed): in every evaluator a harmonicity >= 0.85 gives the
\* align-well comment, one below 0.75 the mismatched comment, one in between
\* no harmonicity comment, and the harmonicity comment is the one after the
\* brightness comment.
C17_HarmonicityComment ==
    call.op = "evaluate" =>
        LET h == call.sim_results.harmonicity
            n == Len(Texts)
        IN  /\ ret.outcome = "return"
            /\ RLe(Rat(85, 100), h) => Count(AlignComments) = 1
            /\ RLt(h, Rat(75, 100)) => Count(MismatchComments) = 1
            /\ (RLe(Rat(75, 100), h) /\ RLt(h, Rat(85, 100)))
                  => Count(AlignComments \cup MismatchComments) = 0
            /\ Count(AlignComments \cup MismatchComments) = 1
                  => /\ Texts[n] \in AlignComments \cup MismatchComments
                     /\ Texts[n - 1] \in {"Leans toward a darker or warmer timbre.",
                                          "Moderately bright", "Quite bright",
                                          "Timbre: Dark/Warm",
                                          "Timbre: Moderately bright",
                                          "Timbre: Quite bright"}
-----------------------------------------------------------------------------
(* Optimizer: properties *)

\* entry within [0.8, 1.2], exit within [0.7, 1.3], length within [0.9, 1.1]
\* times the initial value
InsideBox(params) ==
    LET initial == call.initial_params
        Within(value, low, high, of) ==
            RLe(RMul(low, of), value) /\ RLe(value, RMul(high, of))
    IN  /\ Within(params[1], Rat(8, 10), Rat(12, 10), initial.entry_diam)
        /\ Within(params[2], Rat(7, 10), Rat(13, 10), initial.exit_diam)
        /\ Within(params[3], Rat(9, 10), Rat(11, 10), initial.length_mm)

C19_NeverRaises ==
    call.op = "optimize_geometry" =>
        /\ ret.outcome # "raise"
        /\ ret.outcome = "return" =>
              {"entry_diam", "exit_diam", "length_mm", "success"}
                  \subseteq DOMAIN ret.value
-----------------------------------------------------------------------------
(* Impedance adapter and autotune: properties *)

\* C21 (as claimed): when the engine raises during an evaluation, the
\* adapter's caller gets a result and no exception: neither
\* run_impedance_simulation, nor autotune_bore, nor the optimizer, nor the
\* run_simulation callback ends in the engine's exception, and what is
\* returned is not a result with some of its fields.
C21_EngineFailureContained ==
    /\ ("engine" \in DOMAIN call /\ call.engine.outcome = "raise")
       => /\ ret.outcome = "return"
          /\ DOMAIN ret.value # {} => "failure" \in DOMAIN ret.value
    /\ call.op \in {"autotune_bore", "optimize_geometry"}
       => ~(ret.outcome = "raise" /\ ret.error = "engine error")

\* C25 (as claimed): autotune_bore hands every (entry, exit) pair of the
\* max_iter x max_iter grid over [12.5, 15.0] to the simulation exactly once,
\* and returns a candidate of the grid with its result.
C25_WholeGridOnce ==
    call.op = "autotune_bore" =>
        LET n == call.max_iter
            rows == Len(call.bore_df)
            grid == Linspace(Rat(25, 2), R(15), n)
            \* the passes that simulated the bore running from entry i to exit j
            Passes(i, j) ==
                {k \in DOMAIN ret.evaluated :
                    /\ ret.evaluated[k][1].diameter = RDiv(grid[i], R(1000))
                    /\ rows > 1 =>
                          ret.evaluated[k][rows].diameter = RDiv(grid[j], R(1000))}
        IN  /\ ret.outcome = "return"
            /\ Len(ret.evaluated) = n * n
            /\ \A i \in 1..n : \A j \in 1..n :
                  Cardinality(Passes(i, j)) = (IF rows > 1 THEN 1 ELSE n)
            /\ \E k \in DOMAIN ret.evaluated : ret.value.best_bore = ret.evaluated[k]

\* C26: every candidate scores the same, a candidate replaces the incumbent
\* only on a strictly greater score, and so the bore returned is the first
\* grid point: 12.5 mm at the entry and 12.5 mm at the exit.
C26_FirstCandidateWins ==
    (call.op = "autotune_bore" /\ ret.outcome = "return") =>
        /\ ret.value.best_bore = ret.evaluated[1]
        /\ \A i \in DOMAIN ret.value.best_bore :
              ret.value.best_bore[i].diameter = Rat(125, 10000)

\* a sweep of a grid of more than one point has returned
C26_Witness ==
    /\ call.op = "autotune_bore"
    /\ call.max_iter = 3
    /\ Len(call.bore_df) = 2
    /\ ret.outcome = "return"
    /\ Len(ret.evaluated) = 9
    /\ ret.value.best_bore[2].diameter = Rat(125, 10000)
-----------------------------------------------------------------------------
(* The run-simulation callback: properties *)

\* C22 (as claimed): a run of run_simulation whose entry diameter, exit
\* diameter or length is missing, zero or negative makes no call of
\* run_mock_simulation.
C22_InvalidNeverSimulated ==
    (call.op = "run_simulation" /\ call.file = "callbacks.py") =>
        ((\E input \in {call.entry_diam, call.exit_diam, call.length_mm} :
             \/ "py_none" \in DOMAIN input
             \/ RLe(input, R(0)))
         => ret.simulated = <<>>)
-----------------------------------------------------------------------------
(* Bore profile diameters: properties *)

\* C23: sample i of generate_barrel_profile has the diameter base_i * m, with
\* frac_i = i/(count-1), base_i = entry + frac_i*(exit - entry), and m = 1 for
\* Cylindrical, 1 + k*frac for Tapered, 1 + k*(1-frac) for Reverse Tapered,
\* 1 + k*(frac-0.5)^2 for Parabolic, and for Stepped a factor s > 1 exactly
\* where frac > 0.5 (k and s being constants of the file); a Cylindrical
\* profile with entry = exit = d has every diameter equal to d.
C23_DiameterFormula ==
    call.op = "generate_barrel_profile" =>
        LET count == Len(ret.diam_vals)
            wizard == call.file = "wizard_app.py"
            k == CASE call.bore_shape = "Parabolic" ->
                        (IF wizard THEN Rat(1, 10) ELSE Rat(15, 100))
                   [] OTHER -> (IF wizard THEN Rat(5, 100) ELSE Rat(1, 10))
            s == IF wizard THEN Rat(102, 100) ELSE Rat(105, 100)
            frac(i) == Rat(i, count - 1)
            base(i) == RAdd(call.entry_diam,
                            RMul(frac(i), RSub(call.exit_diam, call.entry_diam)))
            m(i) == CASE call.bore_shape = "Cylindrical" -> R(1)
                      [] call.bore_shape = "Tapered" -> RAdd(R(1), RMul(k, frac(i)))
                      [] call.bore_shape = "Reverse Tapered" ->
                            RAdd(R(1), RMul(k, RSub(R(1), frac(i))))
                      [] call.bore_shape = "Parabolic" ->
                            RAdd(R(1), RMul(k, RSquare(RSub(frac(i), Rat(1, 2)))))
                      [] call.bore_shape = "Stepped" ->
                            IF RLt(Rat(1, 2), frac(i)) THEN s ELSE R(1)
        IN  /\ RLt(R(1), s)
            /\ \A i \in 0..(count - 1) : ret.diam_vals[i + 1] = RMul(base(i), m(i))
            /\ (call.bore_shape = "Cylindrical" /\ call.entry_diam = call.exit_diam)
               => \A i \in 1..count : ret.diam_vals[i] = call.entry_diam

\* a Stepped profile of an odd number of samples: the middle one, at
\* frac = 0.5, is as interpolated and the next one is widened
C23_Witness ==
    /\ call.op = "generate_barrel_profile"
    /\ call.bore_shape = "Stepped"
    /\ call.entry_diam = call.exit_diam
    /\ Len(ret.diam_vals) = 5
    /\ ret.diam_vals[3] = call.entry_diam
    /\ ret.diam_vals[4] = RMul(call.entry_diam, Rat(102, 100))
-----------------------------------------------------------------------------
(* The optimizer's cost: properties *)

\* C24 (as claimed): whenever a target impedance curve is supplied the cost
\* of a candidate is 0.7*|f1 - target_f1|/target_f1 +
\* 0.3*mean((impedance_curve - target_impedance)^2), and it is exactly
\* 0.7*|f1 - target_f1|/target_f1 when none is supplied, f1 and
\* impedance_curve being those of the candidate's one simulation.
C24_CostFormula ==
    call.op = "optimize_geometry" =>
        /\ ret.outcome = "raise" => ret.error # AmbiguousTruth
        /\ "evaluated" \in DOMAIN ret =>
              \A k \in DOMAIN ret.evaluated :
                  LET point == ret.evaluated[k]
                      f1_part == RMul(Rat(7, 10),
                                      RDiv(RAbs(RSub(point.f1, call.target_f1)),
                                           call.target_f1))
                      target == IF "curve" \in DOMAIN call.target_impedance
                                THEN call.target_impedance.curve
                                ELSE call.target_impedance.array
                      squares == [i \in DOMAIN point.impedance_curve |->
                                     RSquare(RSub(point.impedance_curve[i], target[i]))]
                  IN  point.cost =
                          IF "py_none" \in DOMAIN call.target_impedance THEN f1_part
                          ELSE RAdd(f1_part,
                                    RMul(Rat(3, 10),
                                         RDiv(Sum(squares), R(Len(squares)))))
-----------------------------------------------------------------------------
(* Triggers of add_to_comparison: properties *)

\* C27: add_to_comparison fired by the changed simulation store returns the
\* comparison list it was given, same entries in the same order; fired by
\* the compare button it returns that list or that list with one entry
\* appended (cut to its last five).
C27_OnlyButtonAdds ==
    call.op = "add_to_comparison" =>
        /\ call.triggered_id = SimStore => ret.data = call.comparison_data
        /\ call.triggered_id = CompareBtn =>
              \/ ret.data = call.comparison_data
              \/ /\ ret.data # <<>>
                 /\ Len(ret.data) <= Len(call.comparison_data) + 1
                 /\ SubSeq(ret.data, 1, Len(ret.data) - 1)
                       = LastN(call.comparison_data, Len(ret.data) - 1)

\* the store trigger arrives with a fresh result, a design name and a list
\* of three entries, and the table is drawn from the same three
C27_Witness ==
    /\ call.op = "add_to_comparison"
    /\ call.triggered_id = SimStore
    /\ TruthyDict(call.current_sim)
    /\ call.design_name # ""
    /\ Len(call.comparison_data) = 3
    /\ ret.data = call.comparison_data
    /\ ret.children = "table"
-----------------------------------------------------------------------------
(* Saving a design: properties *)

\* the design save_design_to_memory builds from the inputs of SaveDesign
SavedDesign(entry_diam, sim_data) ==
    JObj([k \in {"bore_shape", "exterior_shape", "entry_diam", "exit_diam",
                 "length_mm", "resolution", "material", "simulation"} |->
            CASE k = "bore_shape" -> JStr("Cylindrical")
              [] k = "exterior_shape" -> JStr("Standard (parallel exterior)")
              [] k = "entry_diam" -> entry_diam
              [] k = "exit_diam" -> JNum(15)
              [] k = "length_mm" -> JNum(66)
              [] k = "resolution" -> JStr("Medium")
              [] k = "material" -> JStr("Grenadilla")
              [] k = "simulation" -> sim_data])

\* C28: a save with an empty or missing design name leaves the
\* stored-designs map as it was; a save under the name N sets the entry for
\* N to the new design, in place of any design saved or loaded under N
\* before, and leaves every other key with its value.
C28_SaveDesignFrame ==
    [][\A design_name \in {JNull, JStr(""), JStr("A"), JStr("C")},
          entry_diam \in {JNull, JNum(14)},
          sim_data \in {JObj(EmptyDict), JObj([k \in {"f1"} |-> JNum(450)])} :
          SaveDesign(design_name, entry_diam, sim_data) =>
              IF design_name \in {JNull, JStr("")}
              THEN stored_designs' = stored_designs
              ELSE /\ DOMAIN stored_designs' = DOMAIN stored_designs \cup {design_name}
                   /\ stored_designs'[design_name] = SavedDesign(entry_diam, sim_data)
                   /\ \A other \in DOMAIN stored_designs \ {design_name} :
                         stored_designs'[other] = stored_designs[other]]_vars

\* an uploaded design A has been replaced by a saved one, beside the
\* uploaded design B and the saved design C
C28_Witness ==
    /\ DOMAIN stored_designs = {JStr("A"), JStr("B"), JStr("C")}
    /\ stored_designs[JStr("A")] = SavedDesign(JNum(14), JObj(EmptyDict))
    /\ stored_designs[JStr("B")] = DesignFile(JStr("B"), 14)
    /\ stored_designs[JStr("C")] = SavedDesign(JNull, JObj([k \in {"f1"} |-> JNum(450)]))
-----------------------------------------------------------------------------
(* Wizard navigation: properties *)

\* C29: after any sequence of navigation events from step 1 the step is one
\* of 1, 2, 3, 4, the panel of that step is shown and the other three are
\* hidden.
C29_OnePanelShown ==
    /\ wizard_step \in 1..4
    /\ \A panel \in 1..4 :
          wizard_styles[panel] =
              (IF panel = wizard_step THEN style_shown ELSE style_hidden)

\* the wizard stands at its last step after going back once, panel 4 alone
\* on screen
C29_Witness ==
    /\ Len(wizard_log) = 4
    /\ wizard_log[3].triggered = "w3-back-btn"
    /\ wizard_log[4].triggered = "w3-next-btn"
    /\ wizard_step = 4
    /\ wizard_styles = <<style_hidden, style_hidden, style_hidden, style_shown>>

\* the panel a button sits on; 0 for an event without a button
PanelOf(triggered) ==
    CASE triggered \in {"w1-next-btn"} -> 1
      [] triggered \in {"w2-next-btn", "w2-back-btn"} -> 2
      [] triggered \in {"w3-next-btn", "w3-back-btn"} -> 3
      [] triggered \in {"w4-back-btn", "w4-finish-btn"} -> 4
      [] OTHER -> 0

\* event i came from a button of the panel then on screen, or from no button
FromVisible(i) ==
    \/ PanelOf(wizard_log[i].triggered) = 0
    \/ wizard_log[i].styles[PanelOf(wizard_log[i].triggered)] = style_shown

\* C30: an event of a button on the visible panel moves the step from k to
\* k+1 for Next, from k to k-1 for Back, leaves it at 4 for Finish; an event
\* without a recognised trigger leaves it as it is; and a wizard all of whose
\* events came from visible buttons stands at step 4 only after having been
\* at step 2 and later at step 3.
C30_StepByStep ==
    /\ \A i \in DOMAIN wizard_log :
          LET event == wizard_log[i]
          IN  FromVisible(i) =>
                CASE event.triggered \in {"w1-next-btn", "w2-next-btn", "w3-next-btn"} ->
                        event.from \in 1..3 /\ event.to = event.from + 1
                  [] event.triggered \in {"w2-back-btn", "w3-back-btn", "w4-back-btn"} ->
                        event.from \in 2..4 /\ event.to = event.from - 1
                  [] event.triggered = "w4-finish-btn" ->
                        event.from = 4 /\ event.to = 4
                  [] OTHER -> event.to = event.from
    /\ ((\A i \in DOMAIN wizard_log : FromVisible(i)) /\ wizard_step = 4)
       => \E i \in DOMAIN wizard_log : \E j \in DOMAIN wizard_log :
             /\ i < j
             /\ wizard_log[i].to = 2
             /\ wizard_log[j].to = 3

\* Next, Next, Next and Finish, each pressed on the panel on screen
C30_Witness ==
    /\ Len(wizard_log) = 4
    /\ \A i \in 1..4 : FromVisible(i)
    /\ [i \in 1..4 |-> wizard_log[i].to] = <<2, 3, 4, 4>>
    /\ wizard_log[4].triggered = "w4-finish-btn"
====
